---- MODULE Spec2Model ----
(***************************************************************************)
(* A model of shelf, a content-addressable data build system: the planner  *)
(* (prune_with_regex, prune_completed), the executor (execute_dag), the    *)
(* snapshot component (create, is_up_to_date, fetch), the table component  *)
(* (build_table, is_completed) and the audit of directory snapshots.       *)
(*                                                                         *)
(* Strings are TLA+ strings and \o is string concatenation; paths are      *)
(* sequences of path segments.                                             *)
(***************************************************************************)
EXTENDS Integers, Sequences, FiniteSets, TLC

VARIABLES
    \* planner / executor (steps.py)
    dag,         \* the registry's DAG: step -> list of dependencies
    version,     \* the registry's version
    pc,          \* position of the run: idle, planned, executing, done, failed
    args,        \* the inputs of the planning in progress
    selected,    \* the DAG after prune_with_regex
    plan,        \* the DAG after prune_completed
    to_execute,  \* execute_dag: the steps still to execute, in order
    executed,    \* execute_dag: the steps executed so far, in order
    \* the working tree and the object store
    fs,          \* data files and scripts: path -> bytes
    meta,        \* YAML files (records): path -> document
    store,       \* the object store: key -> bytes
    \* history
    last,        \* the last operation called and how it ended
    fs0,         \* the data files when the current run was planned
    downloaded,  \* the paths the current run has downloaded to
    created,     \* per snapshot URI: where create copied the data, and the bytes
    edits        \* the number of edits the user has made by hand

runVars == <<pc, args, selected, plan, to_execute, executed>>
worldVars == <<fs, meta, store>>
histVars == <<last, fs0, downloaded, created, edits>>
vars == <<dag, version, runVars, worldVars, histVars>>

-----------------------------------------------------------------------------
(* Bounds *)

\* number of step URIs of the planner's registry
MaxSteps == 3

\* number of edits made by hand (to data files, scripts, records, the
\* registry) in one behaviour
MaxEdits == 1

-----------------------------------------------------------------------------
(* types.py: StepURI *)

\* (scheme, path) pairs, listed in ascending order of their textual form
\* scheme://path, which is the order StepURI.__lt__ compares by
\* A dataset name is held as pathlib splits it: the directories, and the
\* last segment as its stem and its suffix (the text from the last dot on).
StepTable ==
    << [scheme |-> "snapshot", path |-> [dir |-> <<"ns", "one">>, stem |-> "2024-07-26", sfx |-> ""]],
       [scheme |-> "snapshot", path |-> [dir |-> <<"ns", "one">>, stem |-> "2024-07-26", sfx |-> ".1"]],
       [scheme |-> "snapshot", path |-> [dir |-> <<"ns", "two">>, stem |-> "latest", sfx |-> ""]],
       [scheme |-> "table",    path |-> [dir |-> <<"ns", "t1">>, stem |-> "latest", sfx |-> ""]],
       [scheme |-> "table",    path |-> [dir |-> <<"ns", "t2">>, stem |-> "latest", sfx |-> ""]],
       [scheme |-> "table",    path |-> [dir |-> <<"ns", "t3">>, stem |-> "latest", sfx |-> ""]] >>

RECURSIVE JoinSlash(_)
\* "/".join(segments)
JoinSlash(segs) ==
    IF segs = <<>> THEN ""
    ELSE IF Len(segs) = 1 THEN segs[1]
    ELSE segs[1] \o "/" \o JoinSlash(Tail(segs))

\* the dataset name as text
NameText(n) == JoinSlash(n.dir \o <<n.stem \o n.sfx>>)

uri(u) == u.scheme \o "://" \o NameText(u.path)

Rank(u) == CHOOSE i \in 1..Len(StepTable) : StepTable[i] = u

\* StepURI.__lt__
StepLt(u, v) == Rank(u) < Rank(v)

\* the planner's registry: the last MaxSteps URIs of the table
Steps == {StepTable[i] : i \in (Len(StepTable) - MaxSteps + 1)..Len(StepTable)}

-----------------------------------------------------------------------------
(* helpers on sequences and dicts *)

Range(s) == {s[i] : i \in 1..Len(s)}

\* the sequences that enumerate the set S, each element once
Perms(S) == {s \in [1..Cardinality(S) -> S] : Range(s) = S}

\* sorted(S) for a set of step URIs
RECURSIVE SortedSteps(_)
SortedSteps(S) ==
    IF S = {} THEN <<>>
    ELSE LET m == CHOOSE u \in S : \A v \in S : ~StepLt(v, u)
         IN <<m>> \o SortedSteps(S \ {m})

\* dict.get(key, [])
Get(d, k) == IF k \in DOMAIN d THEN d[k] ELSE <<>>

\* dict.setdefault(k, []).append(v)
SetDefaultAppend(d, k, v) ==
    IF k \in DOMAIN d THEN [d EXCEPT ![k] = Append(@, v)]
    ELSE (k :> <<v>>) @@ d

\* [d for d in deps if d in include]
Restrict(deps, include) == SelectSeq(deps, LAMBDA d : d \in include)

-----------------------------------------------------------------------------
(* steps.py: prune_with_regex *)

\* re.search(regex, str(step)): a pattern is modelled by the set of URI texts
\* it matches, e.g. the alternation ^(u1|u2)$ of escaped URIs
re_search(regex, text) == text \in regex

\* lines 13-16: the inner loop over one step's dependencies
RECURSIVE AddDownstream(_, _, _)
AddDownstream(down, step, deps) ==
    IF deps = <<>> THEN down
    ELSE AddDownstream(SetDefaultAppend(down, Head(deps), step), step, Tail(deps))

\* lines 13-16: the outer loop over dag.items()
RECURSIVE BuildDownstream(_, _, _)
BuildDownstream(d, keys, down) ==
    IF keys = <<>> THEN down
    ELSE BuildDownstream(d, Tail(keys), AddDownstream(down, Head(keys), d[Head(keys)]))

step_to_downstream(d) == BuildDownstream(d, SortedSteps(DOMAIN d), <<>>)

\* lines 18-21
InitialQueue(d, regex) ==
    SelectSeq(SortedSteps(DOMAIN d), LAMBDA step : re_search(regex, uri(step)))

\* lines 24-33: the work-list loop; queue.pop() takes the last element
RECURSIVE Walk(_, _, _, _, _)
Walk(up, down, descendents, queue, include) ==
    IF queue = <<>> THEN include
    ELSE LET step == queue[Len(queue)]
             rest == SubSeq(queue, 1, Len(queue) - 1)
         IN IF step \in include
            THEN Walk(up, down, descendents, rest, include)
            ELSE Walk(up, down, descendents,
                      rest \o Get(up, step)
                           \o (IF descendents THEN Get(down, step) ELSE <<>>),
                      include \cup {step})

\* the walk never follows a step's dependents
Included_upstream_only(d, regex, descendents) ==
    Walk(d, step_to_downstream(d), FALSE, InitialQueue(d, regex), {})

Included(d, regex, descendents) ==
    Walk(d, step_to_downstream(d), descendents, InitialQueue(d, regex), {})

prune_with_regex(d, regex, descendents) ==
    LET include == Included(d, regex, descendents)
    IN [step \in include |-> Restrict(d[step], include)]

-----------------------------------------------------------------------------
(* graphlib.TopologicalSorter(dag).static_order(), as steps.py calls it *)

\* the insertion order of _node2info: each node, then its predecessors
RECURSIVE AddNew(_, _)
AddNew(order, nodes) ==
    IF nodes = <<>> THEN order
    ELSE AddNew(IF Head(nodes) \in Range(order) THEN order ELSE Append(order, Head(nodes)),
                Tail(nodes))

RECURSIVE NodeOrder(_, _, _)
NodeOrder(d, keys, order) ==
    IF keys = <<>> THEN order
    ELSE NodeOrder(d, Tail(keys), AddNew(AddNew(order, <<Head(keys)>>), d[Head(keys)]))

\* done(node): every successor loses one predecessor for every edge from
\* node; the successors that reach zero become ready, in successor order
RECURSIVE Release(_, _, _, _)
Release(succs, npred, ready, node) ==
    IF succs = <<>> THEN [npred |-> npred, ready |-> ready]
    ELSE LET s == Head(succs)
             n == npred[s] - 1
         IN Release(Tail(succs), [npred EXCEPT ![s] = n],
                    IF n = 0 THEN Append(ready, s) ELSE ready, node)

RECURSIVE DoneAll(_, _, _, _)
DoneAll(down, npred, ready, group) ==
    IF group = <<>> THEN [npred |-> npred, ready |-> ready]
    ELSE LET r == Release(Get(down, Head(group)), npred, ready, Head(group))
         IN DoneAll(down, r.npred, r.ready, Tail(group))

RECURSIVE Batches(_, _, _, _)
Batches(down, npred, ready, out) ==
    IF ready = <<>> THEN out
    ELSE LET r == DoneAll(down, npred, <<>>, ready)
         IN Batches(down, r.npred, r.ready, out \o ready)

\* keys is the iteration order of the dict d
static_order(d, keys) ==
    LET nodes == NodeOrder(d, keys, <<>>)
        npred == [n \in Range(nodes) |-> Len(Get(d, n))]
        down  == BuildDownstream(d, keys, <<>>)
        ready == SelectSeq(nodes, LAMBDA n : npred[n] = 0)
    IN Batches(down, npred, ready, <<>>)

-----------------------------------------------------------------------------
(* steps.py: prune_completed *)

\* lines 45-49: completed[step] is the outcome of is_completed(step)
RECURSIVE DirtyWalk(_, _, _, _)
DirtyWalk(d, completed, order, is_dirty) ==
    IF order = <<>> THEN is_dirty
    ELSE LET step == Head(order)
             v == (\A i \in 1..Len(d[step]) : ~is_dirty[d[step][i]])
                  /\ ~completed[step]
         IN DirtyWalk(d, completed, Tail(order), (step :> v) @@ is_dirty)

IsDirty(d, completed) ==
    DirtyWalk(d, completed, static_order(d, SortedSteps(DOMAIN d)), <<>>)

\* keeps the steps that are not dirty
prune_completed_inverted(d, completed) ==
    LET is_dirty == IsDirty(d, completed)
        include == {step \in DOMAIN is_dirty : ~is_dirty[step]}
    IN [step \in include |-> Restrict(d[step], include)]

prune_completed(d, completed) ==
    LET is_dirty == IsDirty(d, completed)
        include == {step \in DOMAIN is_dirty : is_dirty[step]}
    IN [step \in include |-> Restrict(d[step], include)]

-----------------------------------------------------------------------------
(* the registry's DAGs: closed (every dependency is a key) and acyclic *)

RECURSIVE Reach(_, _, _)
\* the steps reachable from the set S along the edge relation E (a set of pairs)
Reach(E, S, seen) ==
    LET next == {e[2] : e \in {f \in E : f[1] \in S}} \ seen
    IN IF next = {} THEN seen ELSE Reach(E, next, seen \cup next)

\* <<step, dependency>> pairs
DepEdges(d) == {<<s, t>> : s \in DOMAIN d, t \in UNION {Range(d[x]) : x \in DOMAIN d}}
               \cap {e \in (DOMAIN d) \X UNION {Range(d[x]) : x \in DOMAIN d} :
                       e[2] \in Range(d[e[1]])}

Acyclic(d) == \A s \in DOMAIN d : s \notin Reach(DepEdges(d), {s}, {})

Closed(d) == \A s \in DOMAIN d : Range(d[s]) \subseteq DOMAIN d

Dags == {d \in {[s \in Steps |-> SortedSteps(f[s])] : f \in [Steps -> SUBSET Steps]} :
            Acyclic(d)}

-----------------------------------------------------------------------------
(* plan_and_run: select by regex, prune the completed steps, execute *)

NoOp == [op |-> "none", ok |-> TRUE]

NoArgs == [regex |-> {}, use_regex |-> FALSE, force |-> FALSE, completed |-> <<>>]

Texts == {uri(s) : s \in Steps}

Init ==
    /\ dag \in Dags
    /\ pc = "idle"
    /\ args = NoArgs
    /\ selected = <<>>
    /\ plan = <<>>
    /\ to_execute = <<>>
    /\ executed = <<>>
    /\ fs = <<>>
    /\ meta = <<>>
    /\ store = <<>>
    /\ last = NoOp
    /\ fs0 = <<>>
    /\ downloaded = {}
    /\ created = <<>>
    /\ version = 1
    /\ edits = 0

\* planning: the regex (if any) and the outcome of every up-to-date test are inputs
Plan ==
    /\ pc = "idle"
    /\ \E use_regex \in BOOLEAN, regex \in SUBSET Texts, force \in BOOLEAN,
          completed \in [Steps -> BOOLEAN] :
        /\ use_regex \/ regex = {}
        \* with force, no up-to-date test is evaluated
        /\ force => \A s \in Steps : completed[s]
        /\ LET sel == IF use_regex THEN prune_with_regex(dag, regex, TRUE) ELSE dag
           IN /\ selected' = sel
              /\ plan' = IF force THEN sel ELSE prune_completed(sel, completed)
        /\ args' = [regex |-> regex, use_regex |-> use_regex, force |-> force,
                    completed |-> completed]
    /\ pc' = "planned"
    /\ UNCHANGED <<dag, version, to_execute, executed, worldVars, histVars>>

\* the dict's own iteration order, not sorted topologically
to_execute_unsorted(d, keys) == keys

\* execute_dag, line 89
to_execute_list(d, keys) == static_order(d, keys)

\* execute_dag, line 89: the iteration order of the planned dict is the
\* order of a Python set, which is not determined by the program
StartExecute ==
    /\ pc = "planned"
    /\ \E keys \in Perms(DOMAIN plan) : to_execute' = to_execute_list(plan, keys)
    /\ executed' = <<>>
    /\ args' = NoArgs
    /\ pc' = "executing"
    /\ UNCHANGED <<dag, version, selected, plan, worldVars, histVars>>

\* execute_dag, lines 91-93: one step; execute_step returns
ExecuteStepOk ==
    /\ pc = "executing"
    /\ to_execute # <<>>
    /\ executed' = Append(executed, Head(to_execute))
    /\ to_execute' = Tail(to_execute)
    /\ UNCHANGED <<dag, version, pc, args, selected, plan, worldVars, histVars>>

\* execute_dag, lines 91-93: execute_step raises and the loop is left
ExecuteStepRaise ==
    /\ pc = "executing"
    /\ to_execute # <<>>
    /\ pc' = "failed"
    /\ UNCHANGED <<dag, version, args, selected, plan, to_execute, executed, worldVars, histVars>>

\* execute_dag returns
Finish ==
    /\ pc = "executing"
    /\ to_execute = <<>>
    /\ pc' = "done"
    /\ UNCHANGED <<dag, version, args, selected, plan, to_execute, executed, worldVars, histVars>>

Next ==
    \/ Plan
    \/ StartExecute
    \/ ExecuteStepOk
    \/ ExecuteStepRaise
    \/ Finish

Spec == Init /\ [][Next]_vars

-----------------------------------------------------------------------------
(* paths.py, utils.py: paths and checksums *)

SNAPSHOT_DIR == <<"data", "snapshots">>

IGNORE_FILES == {".DS_Store"}

\* hashlib.sha256(bytes).hexdigest(): a function of the bytes fed, without collisions
Sha256(bytes) == "[" \o bytes \o "]"

\* checksum_file(path), the file read from the files f
checksum_file(f, path) == Sha256(f[path])

IsPrefix(p, q) == Len(p) <= Len(q) /\ SubSeq(q, 1, Len(p)) = p

\* dir.rglob("*"), the files only
FilesUnder(f, dir) == {q \in DOMAIN f : Len(q) > Len(dir) /\ IsPrefix(dir, q)}

\* file_path.relative_to(dir_path)
relative_to(q, dir) == SubSeq(q, Len(dir) + 1, Len(q))

is_dir(f, path) == FilesUnder(f, path) # {}

exists(f, path) == path \in DOMAIN f \/ is_dir(f, path)

\* no file is ignored
checksum_folder_with_ignored(f, dir) ==
    [rel \in {relative_to(q, dir) : q \in FilesUnder(f, dir)} |-> checksum_file(f, dir \o rel)]

\* checksum_folder: relative path -> checksum of every file that is not ignored
checksum_folder(f, dir) ==
    LET files == {q \in FilesUnder(f, dir) : q[Len(q)] \notin IGNORE_FILES}
    IN [rel \in {relative_to(q, dir) : q \in files} |-> checksum_file(f, dir \o rel)]

\* an empty manifest is returned
checksum_folder_never_raises(f, dir) == FALSE

\* checksum_folder raises: no file to checksum
checksum_folder_raises(f, dir) == DOMAIN checksum_folder(f, dir) = {}

\* checksum_folder, line 37: the message of the exception
checksum_folder_error(dir) == "No files found in \"" \o JoinSlash(dir) \o "\" to checksum"

\* the relative paths of the model, in ascending order of their text, which
\* is the order sorted(manifest.items()) puts them in
RelTable ==
    << <<"..", "..", "..", "..", "..", "..", "evil.txt">>,
       <<"..", "evil.txt">>,
       <<".DS_Store">>,
       <<"extra.txt">>,
       <<"file1.txt">>,
       <<"file2.txt">> >>

RelRank(rel) == CHOOSE i \in 1..Len(RelTable) : RelTable[i] = rel

RECURSIVE SortedRels(_)
SortedRels(S) ==
    IF S = {} THEN <<>>
    ELSE LET m == CHOOSE r \in S : \A t \in S : RelRank(r) <= RelRank(t)
         IN <<m>> \o SortedRels(S \ {m})

\* the bytes checksum_manifest feeds to the hash: for every entry in sorted
\* order the file name, then the checksum
RECURSIVE Fed(_, _)
Fed(manifest, keys) ==
    IF keys = <<>> THEN ""
    ELSE JoinSlash(Head(keys)) \o manifest[Head(keys)] \o Fed(manifest, Tail(keys))

\* the entries are fed in the order they were inserted
checksum_manifest_unsorted(manifest) ==
    LET k == SortedRels(DOMAIN manifest)
    IN Sha256(Fed(manifest, [i \in 1..Len(k) |-> k[Len(k) + 1 - i]]))

checksum_manifest(manifest) == Sha256(Fed(manifest, SortedRels(DOMAIN manifest)))

\* Path.resolve(): ".." takes the last segment away; a path that leaves the
\* repository root keeps its leading ".."
RECURSIVE ResolveInto(_, _)
ResolveInto(stack, rest) ==
    IF rest = <<>> THEN stack
    ELSE LET seg == Head(rest)
         IN IF seg = ".."
            THEN IF stack = <<>> \/ stack[Len(stack)] = ".."
                 THEN ResolveInto(Append(stack, ".."), Tail(rest))
                 ELSE ResolveInto(SubSeq(stack, 1, Len(stack) - 1), Tail(rest))
            ELSE ResolveInto(Append(stack, seg), Tail(rest))

resolve(path) == ResolveInto(<<>>, path)

\* dest_path.resolve().relative_to(BASE_DIR.resolve()) does not raise
InsideBase(path) == resolve(path) = <<>> \/ resolve(path)[1] # ".."

-----------------------------------------------------------------------------
(* snapshots.py: Snapshot *)

\* Path.with_suffix(suffix) of SNAPSHOT_DIR / dataset_name: the suffix of the
\* last segment is replaced
snapshot_with_suffix(name, suffix) == SNAPSHOT_DIR \o name.dir \o <<name.stem \o suffix>>

\* Snapshot.path
snapshot_path(r) ==
    IF r.snapshot_type = "file"
    THEN SNAPSHOT_DIR \o r.uri.path.dir
             \o <<r.uri.path.stem \o r.uri.path.sfx \o r.extension>>
    ELSE SNAPSHOT_DIR \o r.uri.path.dir \o <<r.uri.path.stem \o r.uri.path.sfx>>

\* Snapshot.metadata_path, and the file Snapshot.load reads
snapshot_metadata_path(name) == snapshot_with_suffix(name, ".meta.yaml")

\* Snapshot.load(path): the record in the metadata file
load(m, name) == m[snapshot_metadata_path(name)]

\* the fields of the dataclass Snapshot
SnapshotFields ==
    {"uri", "snapshot_type", "checksum", "version", "manifest", "extension",
     "name", "source_name", "source_url", "date_accessed"}

\* Snapshot.load raises: there is no metadata file, or the record holds a key
\* that Snapshot(**metadata) does not accept
load_raises(m, name) ==
    \/ snapshot_metadata_path(name) \notin DOMAIN m
    \/ ~(DOMAIN m[snapshot_metadata_path(name)] \subseteq SnapshotFields)

\* the file is uploaded under its checksum alone
upload_key_flat(checksum) == checksum

\* add_to_s3: the key a file is uploaded under; the two prefixes are the
\* checksum's first characters
upload_key(checksum) == "cc/cc/" \o checksum

\* fetch_from_s3: the key a file is downloaded from
s3_path(checksum) == "cc/cc/" \o checksum

add_to_s3(st, bytes, checksum) == (upload_key(checksum) :> bytes) @@ st

\* Snapshot.create_from_file: the files, the records and the store afterwards
create_from_file(f, m, st, local, name) ==
    LET checksum == Sha256(local.bytes)
        data_path == snapshot_with_suffix(name, local.suffix)
        snapshot == [uri |-> [scheme |-> "snapshot", path |-> name],
                     checksum |-> checksum,
                     snapshot_type |-> "file",
                     version |-> 1,
                     extension |-> local.suffix]
    IN [fs |-> (data_path :> local.bytes) @@ f,
        store |-> add_to_s3(st, local.bytes, checksum),
        meta |-> (snapshot_metadata_path(name) :> snapshot) @@ m,
        data_path |-> data_path]

\* copy_dir: shutil.copytree of the local tree
copy_dir(f, tree, data_path) ==
    LET under == {data_path \o rel : rel \in DOMAIN tree}
    IN [q \in DOMAIN f \cup under |->
            IF q \in under THEN tree[relative_to(q, data_path)] ELSE f[q]]

\* add_directory_to_s3: every file of the folder is uploaded
RECURSIVE UploadAll(_, _, _, _, _)
UploadAll(st, f, dir, manifest, keys) ==
    IF keys = <<>> THEN st
    ELSE UploadAll(add_to_s3(st, f[dir \o Head(keys)], manifest[Head(keys)]),
                   f, dir, manifest, Tail(keys))

\* Snapshot.create_from_directory
create_from_directory(f, m, st, tree, name) ==
    LET data_path == SNAPSHOT_DIR \o name.dir \o <<name.stem \o name.sfx>>
        f1 == copy_dir(f, tree, data_path)
        manifest == checksum_folder(f1, data_path)
        snapshot == [uri |-> [scheme |-> "snapshot", path |-> name],
                     checksum |-> checksum_manifest(manifest),
                     snapshot_type |-> "directory",
                     version |-> 1,
                     manifest |-> manifest]
    IN [fs |-> f1,
        store |-> UploadAll(st, f1, data_path, manifest, SortedRels(DOMAIN manifest)),
        meta |-> (snapshot_metadata_path(name) :> snapshot) @@ m,
        data_path |-> data_path]

\* create_from_directory raises: copytree onto an existing path, or no file to checksum
create_from_directory_raises(f, tree, name) ==
    LET data_path == SNAPSHOT_DIR \o name.dir \o <<name.stem \o name.sfx>>
    IN \/ exists(f, data_path)
       \/ checksum_folder_raises(copy_dir(f, tree, data_path), data_path)

\* the up-to-date test always passes
is_up_to_date_always(f, r) == TRUE

\* Snapshot.is_up_to_date
is_up_to_date(f, r) ==
    IF r.snapshot_type = "file"
    THEN exists(f, snapshot_path(r)) /\ r.checksum = checksum_file(f, snapshot_path(r))
    ELSE is_dir(f, snapshot_path(r))
         /\ r.checksum = checksum_manifest(checksum_folder(f, snapshot_path(r)))

\* Snapshot.is_up_to_date raises: the file path is a directory, or the folder
\* holds no file to checksum
is_up_to_date_raises(f, r) ==
    IF r.snapshot_type = "file"
    THEN snapshot_path(r) \notin DOMAIN f /\ is_dir(f, snapshot_path(r))
    ELSE is_dir(f, snapshot_path(r)) /\ checksum_folder_raises(f, snapshot_path(r))

\* fetch_from_s3 and download_file: the download raises when the resolved
\* destination is outside the repository root or the key is not in the store
download_raises(st, checksum, dest_path) ==
    ~InsideBase(dest_path) \/ s3_path(checksum) \notin DOMAIN st

download_file(f, st, checksum, dest_path) ==
    (resolve(dest_path) :> st[s3_path(checksum)]) @@ f

\* Snapshot.fetch, directory: one download per manifest entry, in the order of
\* the metadata file (safe_dump writes the keys sorted), until one raises
RECURSIVE FetchEntries(_, _, _, _, _, _)
FetchEntries(f, st, root, manifest, keys, written) ==
    IF keys = <<>> THEN [ok |-> TRUE, fs |-> f, written |-> written]
    ELSE LET dest == root \o Head(keys)
             checksum == manifest[Head(keys)]
         IN IF download_raises(st, checksum, dest)
            THEN [ok |-> FALSE, fs |-> f, written |-> written]
            ELSE FetchEntries(download_file(f, st, checksum, dest), st, root, manifest,
                              Tail(keys), written \cup {resolve(dest)})

\* Snapshot.fetch
fetch(f, st, r) ==
    IF r.snapshot_type = "file"
    THEN FetchEntries(f, st, snapshot_path(r), (<<>> :> r.checksum), <<<<>>>>, {})
    ELSE FetchEntries(f, st, snapshot_path(r), r.manifest,
                      SortedRels(DOMAIN r.manifest), {})

\* snapshots.is_completed
snapshot_is_completed(f, m, step) == is_up_to_date(f, load(m, step.path))

-----------------------------------------------------------------------------
(* The shelf of snapshots: registering, local edits, audit, run *)

SnapshotNames == {StepTable[i].path : i \in {j \in 1..Len(StepTable) : StepTable[j].scheme = "snapshot"}}

\* the local files and the local directory the tests register
LocalFiles ==
    {[suffix |-> ".txt", bytes |-> "Hello, World!"],
     [suffix |-> "", bytes |-> "Hello, Cosmos!"]}

LocalDirs ==
    {(<<"file1.txt">> :> "Hello, World!") @@ (<<"file2.txt">> :> "Hello, Cosmos!")}

Modified == "Modified content"

\* "0" * 64
Zeros == "0000"

Remove(f, paths) == [q \in DOMAIN f \ paths |-> f[q]]

\* one more edit by hand
Edit == edits < MaxEdits /\ edits' = edits + 1

SnapshotUri(name) == [scheme |-> "snapshot", path |-> name]

\* Shelf.init: an empty registry, no data, no record, an empty store
InitShelf ==
    /\ dag = <<>>
    /\ pc = "idle"
    /\ args = NoArgs
    /\ selected = <<>>
    /\ plan = <<>>
    /\ to_execute = <<>>
    /\ executed = <<>>
    /\ fs = <<>>
    /\ meta = <<>>
    /\ store = <<>>
    /\ last = NoOp
    /\ fs0 = <<>>
    /\ downloaded = {}
    /\ created = <<>>
    /\ version = 1
    /\ edits = 0

CanRegister(name) ==
    /\ pc = "idle"
    /\ SnapshotUri(name) \notin DOMAIN dag

\* snapshot_to_shelf of a file: Snapshot.create_from_file, then the step is
\* added to the registry without dependencies
SnapshotFile ==
    \E name \in SnapshotNames, local \in LocalFiles :
        /\ CanRegister(name)
        /\ ~is_dir(fs, snapshot_with_suffix(name, local.suffix))
        /\ LET res == create_from_file(fs, meta, store, local, name)
           IN /\ fs' = res.fs
              /\ meta' = res.meta
              /\ store' = res.store
              /\ created' = (SnapshotUri(name) :>
                                [snapshot_type |-> "file", data_path |-> res.data_path,
                                 bytes |-> local.bytes]) @@ created
        /\ dag' = (SnapshotUri(name) :> <<>>) @@ dag
        /\ last' = NoOp
        /\ UNCHANGED <<version, runVars, fs0, downloaded, edits>>

\* snapshot_to_shelf of a directory: Snapshot.create_from_directory
SnapshotDirectory(trees) ==
    \E name \in SnapshotNames, tree \in trees :
        /\ CanRegister(name)
        /\ ~create_from_directory_raises(fs, tree, name)
        /\ LET res == create_from_directory(fs, meta, store, tree, name)
           IN /\ fs' = res.fs
              /\ meta' = res.meta
              /\ store' = res.store
              /\ created' = (SnapshotUri(name) :>
                                [snapshot_type |-> "directory", data_path |-> res.data_path,
                                 bytes |-> tree]) @@ created
        /\ dag' = (SnapshotUri(name) :> <<>>) @@ dag
        /\ last' = NoOp
        /\ UNCHANGED <<version, runVars, fs0, downloaded, edits>>

\* snapshot_to_shelf of a directory raises in copytree: nothing is written
SnapshotDirectoryRaise(trees) ==
    \E name \in SnapshotNames, tree \in trees :
        /\ CanRegister(name)
        /\ create_from_directory_raises(fs, tree, name)
        /\ last' = [op |-> "snapshot", ok |-> FALSE]
        /\ UNCHANGED <<dag, version, runVars, worldVars, fs0, downloaded, created, edits>>

\* the user overwrites a data file
UserOverwrite ==
    \E path \in DOMAIN fs :
        /\ pc = "idle"
        /\ fs[path] # Modified
        /\ fs' = [fs EXCEPT ![path] = Modified]
        /\ last' = NoOp
        /\ Edit
        /\ UNCHANGED <<dag, version, runVars, meta, store, fs0, downloaded, created>>

\* the user unlinks a data file; the model keeps no empty directory, so the
\* last file of a folder goes with the folder (UserRmtree)
UserDelete ==
    \E path \in DOMAIN fs :
        /\ pc = "idle"
        /\ \A mp \in DOMAIN meta :
              meta[mp].snapshot_type = "directory" /\ IsPrefix(snapshot_path(meta[mp]), path)
                  => FilesUnder(fs, snapshot_path(meta[mp])) # {path}
        /\ fs' = Remove(fs, {path})
        /\ last' = NoOp
        /\ Edit
        /\ UNCHANGED <<dag, version, runVars, meta, store, fs0, downloaded, created>>

\* the user removes the folder of a directory snapshot (shutil.rmtree)
UserRmtree ==
    \E mp \in DOMAIN meta :
        /\ pc = "idle"
        /\ meta[mp].snapshot_type = "directory"
        /\ is_dir(fs, snapshot_path(meta[mp]))
        /\ fs' = Remove(fs, FilesUnder(fs, snapshot_path(meta[mp])))
        /\ last' = NoOp
        /\ Edit
        /\ UNCHANGED <<dag, version, runVars, meta, store, fs0, downloaded, created>>

\* the checksum of a record is edited to a wrong value
CorruptChecksum ==
    \E mp \in DOMAIN meta :
        /\ pc = "idle"
        /\ meta[mp].checksum # Zeros
        /\ meta' = [meta EXCEPT ![mp].checksum = Zeros]
        /\ last' = NoOp
        /\ Edit
        /\ UNCHANGED <<dag, version, runVars, fs, store, fs0, downloaded, created>>

\* audit: the directory snapshot of step s has a checksum that is not the
\* roll-up of its manifest
audit_mismatch(m, step) ==
    /\ step.scheme = "snapshot"
    /\ load(m, step.path).snapshot_type = "directory"
    /\ load(m, step.path).checksum # checksum_manifest(load(m, step.path).manifest)

\* audit_shelf raises
audit_raises(m, d, fix) == ~fix /\ \E step \in DOMAIN d : audit_mismatch(m, step)

\* audit_shelf with fix: the records afterwards
audit_shelf(m, d) ==
    LET bad == {snapshot_metadata_path(step.path) :
                    step \in {t \in DOMAIN d : audit_mismatch(m, t)}}
    IN [mp \in DOMAIN m |->
            IF mp \in bad
            THEN [m[mp] EXCEPT !.checksum = checksum_manifest(m[mp].manifest)]
            ELSE m[mp]]

AuditOk ==
    \E fix \in BOOLEAN :
        /\ pc = "idle"
        /\ ~audit_raises(meta, dag, fix)
        /\ meta' = IF fix THEN audit_shelf(meta, dag) ELSE meta
        /\ last' = [op |-> "audit", ok |-> TRUE, fix |-> fix, meta0 |-> meta]
        /\ UNCHANGED <<dag, version, runVars, fs, store, fs0, downloaded, created, edits>>

AuditRaise ==
    /\ pc = "idle"
    /\ audit_raises(meta, dag, FALSE)
    /\ last' = [op |-> "audit", ok |-> FALSE, fix |-> FALSE, meta0 |-> meta]
    /\ UNCHANGED <<dag, version, runVars, worldVars, fs0, downloaded, created, edits>>

\* steps.is_completed
is_completed(f, m, step) == snapshot_is_completed(f, m, step)

\* snapshots.is_completed raises: in Snapshot.load or in the up-to-date test
is_completed_raises(f, m, step) ==
    \/ load_raises(m, step.path)
    \/ is_up_to_date_raises(f, load(m, step.path))

\* prune_completed raises: it catches nothing, and a step without
\* dependencies is always tested (all() of nothing is true)
prune_completed_raises(d, f, m) ==
    \E step \in DOMAIN d :
        step.scheme = "snapshot" /\ d[step] = <<>> /\ is_completed_raises(f, m, step)

\* plan_and_run, planning: every step's up-to-date test is evaluated on the
\* files; dry_run is the flag execute_dag is then called with, drawn from
\* dry_runs
PlanRun(dry_runs) ==
    \E force \in BOOLEAN, dry_run \in dry_runs :
        /\ pc = "idle"
        /\ force \/ ~prune_completed_raises(dag, fs, meta)
        /\ LET completed == [step \in DOMAIN dag |-> is_completed(fs, meta, step)]
           IN /\ selected' = dag
              /\ plan' = IF force THEN dag ELSE prune_completed(dag, completed)
              /\ args' = [regex |-> {}, use_regex |-> FALSE, force |-> force,
                          completed |-> completed]
        /\ pc' = "planned"
        /\ last' = [op |-> "run", ok |-> TRUE, force |-> force, dry_run |-> dry_run]
        /\ fs0' = fs
        /\ downloaded' = {}
        /\ UNCHANGED <<dag, version, to_execute, executed, worldVars, created, edits>>

\* plan_and_run without force, planning raises: prune_completed lets the
\* exception of an up-to-date test through and the command ends, nothing
\* being planned or executed
PlanRunRaise ==
    /\ pc = "idle"
    /\ prune_completed_raises(dag, fs, meta)
    /\ \E step \in DOMAIN dag :
          /\ step.scheme = "snapshot" /\ dag[step] = <<>>
          /\ is_completed_raises(fs, meta, step)
          /\ last' = [op |-> "run", ok |-> FALSE, force |-> FALSE, dry_run |-> FALSE,
                      uri |-> step,
                      error |-> IF load_raises(meta, step.path) THEN "Snapshot.load"
                                ELSE IF load(meta, step.path).snapshot_type = "file"
                                THEN "checksum_file"
                                ELSE checksum_folder_error(snapshot_path(load(meta, step.path)))]
    /\ selected' = dag
    /\ plan' = <<>>
    /\ pc' = "failed"
    /\ args' = NoArgs
    /\ fs0' = fs
    /\ downloaded' = {}
    /\ UNCHANGED <<dag, version, to_execute, executed, worldVars, created, edits>>

\* execute_step of a snapshot: Snapshot.load(step.path).fetch() returns
FetchStepOk ==
    /\ pc = "executing"
    /\ to_execute # <<>>
    /\ LET res == fetch(fs, store, load(meta, Head(to_execute).path))
       IN /\ res.ok
          /\ fs' = res.fs
          /\ downloaded' = downloaded \cup res.written
    /\ executed' = Append(executed, Head(to_execute))
    /\ to_execute' = Tail(to_execute)
    /\ UNCHANGED <<dag, version, pc, args, selected, plan, meta, store, last, fs0, created, edits>>

\* the loop of execute_dag catches the error of a step and goes on
FetchStepRaise_swallowed ==
    /\ pc = "executing"
    /\ to_execute # <<>>
    /\ LET res == fetch(fs, store, load(meta, Head(to_execute).path))
       IN /\ ~res.ok
          /\ fs' = res.fs
          /\ downloaded' = downloaded \cup res.written
    /\ to_execute' = Tail(to_execute)
    /\ UNCHANGED <<dag, version, pc, args, selected, plan, executed, meta, store, last,
                   fs0, created, edits>>

\* execute_step of a snapshot: a download raises, the run ends there
FetchStepRaise ==
    /\ pc = "executing"
    /\ to_execute # <<>>
    /\ LET res == fetch(fs, store, load(meta, Head(to_execute).path))
       IN /\ ~res.ok
          /\ fs' = res.fs
          /\ downloaded' = downloaded \cup res.written
    /\ pc' = "failed"
    /\ UNCHANGED <<dag, version, args, selected, plan, to_execute, executed, meta, store, last,
                   fs0, created, edits>>

\* the command has ended; the next one starts from the files it left
Return ==
    /\ pc \in {"done", "failed"}
    /\ pc' = "idle"
    /\ args' = NoArgs
    /\ selected' = <<>>
    /\ plan' = <<>>
    /\ to_execute' = <<>>
    /\ executed' = <<>>
    /\ last' = NoOp
    /\ fs0' = <<>>
    /\ downloaded' = {}
    /\ UNCHANGED <<dag, version, worldVars, created, edits>>

NextSnapshots ==
    \/ SnapshotFile
    \/ SnapshotDirectory(LocalDirs)
    \/ SnapshotDirectoryRaise(LocalDirs)
    \/ UserOverwrite
    \/ UserDelete
    \/ UserRmtree
    \/ CorruptChecksum
    \/ AuditOk
    \/ AuditRaise
    \/ PlanRun({FALSE})
    \/ StartExecute
    \/ FetchStepOk
    \/ FetchStepRaise
    \/ Finish
    \/ Return

SpecSnapshots == InitShelf /\ [][NextSnapshots]_vars

-----------------------------------------------------------------------------
(* tables.py: paths, scripts and metadata of a table step *)

TABLE_DIR == <<"data", "tables">>

TABLE_SCRIPT_DIR == <<"steps", "tables">>

\* TABLE_DIR / f"{uri.path}.parquet"
table_path(u) == TABLE_DIR \o u.path.dir \o <<u.path.stem \o u.path.sfx \o ".parquet">>

\* _metadata_path
_metadata_path(u) ==
    IF u.scheme = "snapshot"
    THEN snapshot_with_suffix(u.path, ".meta.yaml")
    ELSE TABLE_DIR \o u.path.dir \o <<u.path.stem \o u.path.sfx \o ".meta.yaml">>

\* Path.with_suffix on a path whose last segment has no dot
with_suffix(path, suffix) ==
    SubSeq(path, 1, Len(path) - 1) \o <<path[Len(path)] \o suffix>>

\* _get_executable, lines 240-244: the candidate scripts in the order tried
script_candidates(u) ==
    LET parent == TABLE_SCRIPT_DIR \o u.path.dir
    IN << parent \o <<u.path.stem \o ".py">>,
          parent \o <<u.path.stem \o ".sql">>,
          with_suffix(parent, ".py"),
          with_suffix(parent, ".sql") >>

\* _get_executable raises FileNotFoundError
_get_executable_raises(f, u) ==
    \A i \in 1..Len(script_candidates(u)) : script_candidates(u)[i] \notin DOMAIN f

\* _get_executable: the first candidate that exists (the scripts of the model
\* have their execute permission)
_get_executable(f, u) ==
    LET c == script_candidates(u)
    IN c[CHOOSE i \in 1..Len(c) : c[i] \in DOMAIN f /\ \A j \in 1..(i - 1) : c[j] \notin DOMAIN f]

\* The scripts of the model, by their bytes, and what running one does: the
\* exit status, and the Parquet file written to the last argument, if any.
\* A column name is held as (prefix, rest), the prefix being "dim_" or "".
ScriptDim == "write dim_col1,col2"

ScriptNoDim == "write col1,col2"

\* the script of test_generate_with_non_unique_dim_columns: two rows with
\* the same value in the one dimension column
ScriptDup == "write dim_col1,col2 rows 1,2 1,3 3,5"

ScriptNoOutput == "write nothing"

ScriptExit == "exit 1"

\* the scripts the user writes; a script that exits with an error leaves the
\* files as one that writes nothing does
Scripts == {ScriptDim, ScriptNoDim, ScriptDup, ScriptNoOutput}

ParquetDim == "PAR1 dim_col1 col2"

ParquetNoDim == "PAR1 col1 col2"

ParquetDup == "PAR1 dim_col1 col2 rows 1,2 1,3 3,5"

\* _exec_python_command: subprocess.run(command, check=True)
run_script(bytes) ==
    CASE bytes = ScriptDim -> [returncode |-> 0, writes |-> TRUE, output |-> ParquetDim]
      [] bytes = ScriptNoDim -> [returncode |-> 0, writes |-> TRUE, output |-> ParquetNoDim]
      [] bytes = ScriptDup -> [returncode |-> 0, writes |-> TRUE, output |-> ParquetDup]
      [] bytes = ScriptNoOutput -> [returncode |-> 0, writes |-> FALSE, output |-> ""]
      [] OTHER -> [returncode |-> 1, writes |-> FALSE, output |-> ""]

\* _infer_schema: pl.read_parquet(data_path).schema as a list of (column, type)
_infer_schema(bytes) ==
    IF bytes \in {ParquetDim, ParquetDup}
    THEN << <<<<"dim_", "col1">>, "Int64">>, <<<<"", "col2">>, "Int64">> >>
    ELSE << <<<<"", "col1">>, "Int64">>, <<<<"", "col2">>, "Int64">> >>

\* col.startswith("dim_")
startswith_dim(col) == col[1] = "dim_"

\* the dimension check never fails
has_dimension_always(schema) == TRUE

\* _gen_metadata, line 208: any(col.startswith("dim_") for col in columns)
has_dimension(schema) == \E i \in 1..Len(schema) : startswith_dim(schema[i][1])

\* the descriptive fields a table inherits, in the order of _gen_metadata
DescriptiveFields == <<"name", "source_name", "source_url", "date_accessed", "access_notes">>

\* the line of an optional field of a record
dump_field(r, field) ==
    IF field \in DOMAIN r THEN field \o ": " \o r[field] \o "\n" ELSE ""

\* yaml.safe_dump of a file snapshot's record: the keys sorted
dump_snapshot(r) ==
    dump_field(r, "access_notes") \o "checksum: " \o r.checksum \o "\n"
        \o dump_field(r, "date_accessed") \o "extension: " \o r.extension \o "\n"
        \o dump_field(r, "name") \o "snapshot_type: " \o r.snapshot_type \o "\n"
        \o dump_field(r, "source_name") \o dump_field(r, "source_url")
        \o "uri: " \o uri(r.uri) \o "\nversion: 1\n"

RECURSIVE dump_items(_)
\* a mapping of path -> checksum, in insertion order
dump_items(items) ==
    IF items = <<>> THEN ""
    ELSE "  " \o JoinSlash(Head(items)[1]) \o ": " \o Head(items)[2] \o "\n"
             \o dump_items(Tail(items))

RECURSIVE dump_schema(_)
dump_schema(schema) ==
    IF schema = <<>> THEN ""
    ELSE "  " \o Head(schema)[1][1] \o Head(schema)[1][2] \o ": " \o Head(schema)[2] \o "\n"
             \o dump_schema(Tail(schema))

\* save_yaml of a table's record: yaml.dump with sort_keys=False
dump_table(r) ==
    "uri: " \o uri(r.uri) \o "\nversion: 1\nchecksum: " \o r.checksum
        \o "\ninput_manifest:\n" \o dump_items(r.input_manifest)
        \o dump_field(r, "name") \o dump_field(r, "source_name")
        \o dump_field(r, "source_url") \o dump_field(r, "date_accessed")
        \o dump_field(r, "access_notes")
        \o "schema:\n" \o dump_schema(r.schema)

\* the bytes of the YAML file that holds record r
dump(r) == IF r.uri.scheme = "table" THEN dump_table(r) ELSE dump_snapshot(r)

\* Path(path).exists(), for data files, scripts and YAML files
path_exists(f, m, path) == path \in DOMAIN f \/ path \in DOMAIN m

\* checksum_file(path), for data files, scripts and YAML files
checksum_path(f, m, path) ==
    IF path \in DOMAIN m THEN Sha256(dump(m[path])) ELSE Sha256(f[path])

\* dict lookup and membership on a mapping held in insertion order
Keys(items) == {items[i][1] : i \in 1..Len(items)}

\* _generate_input_manifest: the script, then every dependency's metadata file
_generate_input_manifest(f, m, u, deps) ==
    << <<_get_executable(f, u), checksum_path(f, m, _get_executable(f, u))>> >>
        \o [i \in 1..Len(deps) |->
               <<_metadata_path(deps[i]), checksum_path(f, m, _metadata_path(deps[i]))>>]

\* the declared dependencies are not looked up in the manifest
is_completed_undeclared(f, m, u, deps) ==
    /\ table_path(u) \in DOMAIN f
    /\ _metadata_path(u) \in DOMAIN m
    /\ \A i \in 1..Len(m[_metadata_path(u)].input_manifest) :
          LET item == m[_metadata_path(u)].input_manifest[i]
          IN path_exists(f, m, item[1]) /\ item[2] = checksum_path(f, m, item[1])

\* only the easy case is looked at: the output and the metadata file exist
is_completed_if_present(f, m, u, deps) ==
    /\ table_path(u) \in DOMAIN f
    /\ _metadata_path(u) \in DOMAIN m

\* tables.is_completed(uri, deps)
table_is_completed(f, m, u, deps) ==
    /\ table_path(u) \in DOMAIN f
    /\ _metadata_path(u) \in DOMAIN m
    /\ \A i \in 1..Len(deps) :
          _metadata_path(deps[i]) \in Keys(m[_metadata_path(u)].input_manifest)
    /\ \A i \in 1..Len(m[_metadata_path(u)].input_manifest) :
          LET item == m[_metadata_path(u)].input_manifest[i]
          IN path_exists(f, m, item[1]) /\ item[2] = checksum_path(f, m, item[1])

\* _gen_metadata, line 189
inherits(deps) == Len(deps) = 1

\* _gen_metadata, lines 191-201: the descriptive fields of the record of the
\* first dependency; str() of a field, which the records hold as text
inherited(m, deps) ==
    LET dep_metadata == m[_metadata_path(deps[1])]
    IN [field \in Range(DescriptiveFields) \cap DOMAIN dep_metadata |-> dep_metadata[field]]

\* _gen_metadata, lines 182-203: the record, with the fields inherited from
\* a single dependency
table_record(f, m, u, deps) ==
    LET base == [uri |-> u,
                 version |-> 1,
                 checksum |-> Sha256(f[table_path(u)]),
                 input_manifest |-> _generate_input_manifest(f, m, u, deps),
                 schema |-> _infer_schema(f[table_path(u)])]
    IN IF inherits(deps) THEN inherited(m, deps) @@ base ELSE base

\* the output of an earlier build is left in place
unlink_output_skipped(f, u) == f

\* _exec_command, lines 84-85: dest_path.unlink() if it exists
unlink_output(f, u) == Remove(f, {table_path(u)})

\* _exec_command, line 94: the message of the exception
no_output_error(u) ==
    "Table step " \o uri(u) \o " did not generate the expected " \o JoinSlash(table_path(u))

\* build_table(uri, dependencies): how it ends, and the files and records left;
\* error is the message of the exception of _exec_command, or says where
\* another exception came from
build_table(f, m, u, deps) ==
    IF \/ _get_executable_raises(f, u)
       \/ \E i \in 1..Len(deps) :
             deps[i].scheme = "snapshot" /\ load_raises(m, deps[i].path)
    THEN \* _generate_build_command raises
         [ok |-> FALSE, produced |-> FALSE, fs |-> f, meta |-> m,
          error |-> "_generate_build_command"]
    ELSE LET f1 == unlink_output(f, u)
             run == run_script(f[_get_executable(f, u)])
             f2 == (table_path(u) :> run.output) @@ f1
         IN IF run.returncode # 0
            THEN \* subprocess.run(check=True) raises; the old output has been unlinked
                 [ok |-> FALSE, produced |-> FALSE, fs |-> f1, meta |-> m,
                  error |-> "subprocess.run"]
            ELSE IF ~run.writes
            THEN \* _exec_command raises; the old output has been unlinked
                 [ok |-> FALSE, produced |-> FALSE, fs |-> f1, meta |-> m,
                  error |-> no_output_error(u)]
            ELSE IF \E i \in 1..Len(deps) : ~path_exists(f2, m, _metadata_path(deps[i]))
            THEN \* _generate_input_manifest raises
                 [ok |-> FALSE, produced |-> TRUE, fs |-> f2, meta |-> m,
                  error |-> "_generate_input_manifest"]
            ELSE IF ~has_dimension(_infer_schema(run.output))
            THEN \* line 210: ValueError, before save_yaml
                 [ok |-> FALSE, produced |-> TRUE, fs |-> f2, meta |-> m,
                  error |-> "_gen_metadata"]
            ELSE [ok |-> TRUE, produced |-> TRUE, fs |-> f2, error |-> "",
                  meta |-> (_metadata_path(u) :> table_record(f2, m, u, deps)) @@ m]

-----------------------------------------------------------------------------
(* The shelf of tables: builds, edits of scripts, records and the registry *)

\* the snapshot the tables may depend on
SourceName == StepTable[3].path

TableSteps == {StepTable[4], StepTable[5]}

\* the dependencies a table may declare: the snapshot and the tables before it
DepChoices(u) ==
    {SortedSteps(D) : D \in SUBSET ({SnapshotUri(SourceName)}
                                       \cup {t \in TableSteps : StepLt(t, u)})}

\* one registered file snapshot; every table registered with some of the
\* dependencies it may declare, and a script that writes a dimension column
InitTables ==
    /\ LET res == create_from_file(<<>>, <<>>, <<>>,
                                   [suffix |-> ".txt", bytes |-> "Hello, World!"], SourceName)
       IN /\ fs = [path \in {script_candidates(t)[1] : t \in TableSteps} |-> ScriptDim]
                     @@ res.fs
          /\ meta = res.meta
          /\ store = res.store
    /\ \E deps \in [TableSteps -> UNION {DepChoices(t) : t \in TableSteps}] :
          /\ \A t \in TableSteps : deps[t] \in DepChoices(t)
          /\ dag = (SnapshotUri(SourceName) :> <<>>) @@ deps
    /\ pc = "idle"
    /\ args = NoArgs
    /\ selected = <<>>
    /\ plan = <<>>
    /\ to_execute = <<>>
    /\ executed = <<>>
    /\ last = NoOp
    /\ fs0 = <<>>
    /\ downloaded = {}
    /\ created = <<>>
    /\ version = 1
    /\ edits = 0

\* build_table(uri, deps) with the dependencies the registry declares: returns
BuildTableOk ==
    \E u \in TableSteps :
        LET res == build_table(fs, meta, u, dag[u])
        IN /\ res.ok
           /\ fs' = res.fs
           /\ meta' = res.meta
           /\ last' = [op |-> "build", ok |-> TRUE, uri |-> u, produced |-> res.produced,
                       error |-> res.error, before |-> Get(meta, _metadata_path(u))]
           /\ UNCHANGED <<dag, version, runVars, store, fs0, downloaded, created, edits>>

\* build_table(uri, deps) raises
BuildTableRaise ==
    \E u \in TableSteps :
        LET res == build_table(fs, meta, u, dag[u])
        IN /\ ~res.ok
           /\ fs' = res.fs
           /\ meta' = res.meta
           /\ last' = [op |-> "build", ok |-> FALSE, uri |-> u, produced |-> res.produced,
                       error |-> res.error, before |-> Get(meta, _metadata_path(u))]
           /\ UNCHANGED <<dag, version, runVars, store, fs0, downloaded, created, edits>>

\* the user edits a table's script
EditScript ==
    \E u \in TableSteps, bytes \in Scripts :
        /\ ~_get_executable_raises(fs, u)
        /\ fs[_get_executable(fs, u)] # bytes
        /\ fs' = [fs EXCEPT ![_get_executable(fs, u)] = bytes]
        /\ last' = NoOp
        /\ Edit
        /\ UNCHANGED <<dag, version, runVars, meta, store, fs0, downloaded, created>>

\* the user edits the registry: the dependencies a table declares
EditDependencies ==
    \E u \in TableSteps : \E deps \in DepChoices(u) :
        /\ dag[u] # deps
        /\ dag' = [dag EXCEPT ![u] = deps]
        /\ last' = NoOp
        /\ Edit
        /\ UNCHANGED <<version, runVars, worldVars, fs0, downloaded, created>>

\* the values the user gives the descriptive fields
FieldValue ==
    [name |-> "Huzzah", source_name |-> "Huzzah", source_url |-> "https://a.com/b/c",
     date_accessed |-> "2024-07-26", access_notes |-> "by hand"]

\* the user edits the snapshot's record: one more descriptive field
EditRecord ==
    \E field \in Range(DescriptiveFields) :
        LET mp == snapshot_metadata_path(SourceName)
        IN /\ mp \in DOMAIN meta
           /\ field \notin DOMAIN meta[mp]
           /\ meta' = [meta EXCEPT ![mp] = (field :> FieldValue[field]) @@ @]
           /\ last' = NoOp
           /\ Edit
           /\ UNCHANGED <<dag, version, runVars, fs, store, fs0, downloaded, created>>

\* the user removes a table's output file or a YAML file
RemoveFile ==
    \/ \E u \in TableSteps :
          /\ table_path(u) \in DOMAIN fs
          /\ fs' = Remove(fs, {table_path(u)})
          /\ meta' = meta
          /\ last' = NoOp
          /\ Edit
          /\ UNCHANGED <<dag, version, runVars, store, fs0, downloaded, created>>
    \/ \E mp \in DOMAIN meta :
          /\ meta' = Remove(meta, {mp})
          /\ fs' = fs
          /\ last' = NoOp
          /\ Edit
          /\ UNCHANGED <<dag, version, runVars, store, fs0, downloaded, created>>

NextTables ==
    \/ BuildTableOk
    \/ BuildTableRaise
    \/ EditScript
    \/ EditDependencies
    \/ EditRecord
    \/ RemoveFile

SpecTables == InitTables /\ [][NextTables]_vars

-----------------------------------------------------------------------------
(* Planner and executor: properties *)

Ancestors(d, S) == Reach(DepEdges(d), S, {})

Descendants(d, S) == Reach({<<e[2], e[1]>> : e \in DepEdges(d)}, S, {})

Matched(d, regex) == {s \in DOMAIN d : uri(s) \in regex}

\* the steps whose own test fails, and every step that depends on one of them
DirtySteps(d, completed) ==
    LET failing == {s \in DOMAIN d : ~completed[s]}
    IN failing \cup Descendants(d, failing)

KeepsKeptEdges(sub, d) ==
    \A s \in DOMAIN sub :
        /\ Range(sub[s]) = Range(d[s]) \cap DOMAIN sub
        /\ Len(sub[s]) = Cardinality(Range(sub[s]))

PlannedNoForce == pc = "planned" /\ ~args.force

\* C1: planning without force returns exactly the dirty steps, a step being
\* dirty iff its own up-to-date test fails or one of its dependencies is
\* dirty, and each kept step keeps exactly its kept dependencies.
C1_PlanIsDirtySteps ==
    PlannedNoForce =>
        /\ DOMAIN plan = DirtySteps(selected, args.completed)
        /\ KeepsKeptEdges(plan, selected)

\* C2 as stated: the regex selection keeps exactly the matching steps, their
\* transitive dependencies and their transitive dependents, and no other step.
C2_SelectionIsAncestorsAndDescendants ==
    (pc = "planned" /\ args.use_regex) =>
        LET m == Matched(dag, args.regex)
        IN /\ DOMAIN selected = m \cup Ancestors(dag, m) \cup Descendants(dag, m)
           /\ KeepsKeptEdges(selected, dag)

\* the steps connected to S by a path of dependency edges taken in either direction
Connected(d, S) ==
    S \cup Reach(DepEdges(d) \cup {<<e[2], e[1]>> : e \in DepEdges(d)}, S, {})

\* C2 as amended: the regex selection keeps exactly the smallest set of steps
\* that contains the matching steps and is closed under dependencies and
\* dependents (so also a second dependency of a matched step's dependent);
\* each kept step keeps exactly those of its dependencies that are kept.
C2_SelectionIsConnectedClosure ==
    (pc = "planned" /\ args.use_regex) =>
        /\ DOMAIN selected = Connected(dag, Matched(dag, args.regex))
        /\ KeepsKeptEdges(selected, dag)

\* a selection that holds a step which is neither matched, nor a dependency
\* nor a dependent of a matched step
C2_Witness ==
    /\ pc = "planned"
    /\ args.use_regex
    /\ LET m == Matched(dag, args.regex)
       IN \E s \in DOMAIN selected :
            s \notin m \cup Ancestors(dag, m) \cup Descendants(dag, m)

\* C3: planning without force returns the empty sub-DAG iff every step of the
\* selected DAG passes its own up-to-date test.
C3_EmptyPlanIffAllUpToDate ==
    PlannedNoForce =>
        ((DOMAIN plan = {}) <=> (\A s \in DOMAIN selected : args.completed[s]))

\* a step fails its test and has a dependency that fails too: the plan is not empty
C3_Witness ==
    /\ PlannedNoForce
    /\ DOMAIN plan # {}
    /\ \E s \in DOMAIN selected :
         /\ ~args.completed[s]
         /\ \E t \in Range(selected[s]) : ~args.completed[t]

NoDuplicates(s) == \A i, j \in 1..Len(s) : s[i] = s[j] => i = j

\* C10: execute_dag executes every step of the planned sub-DAG exactly once,
\* one at a time, each only after all of its dependencies in the sub-DAG.
C10_ExecutesInTopologicalOrder ==
    pc \in {"executing", "done", "failed"} =>
        /\ NoDuplicates(executed \o to_execute)
        /\ Range(executed \o to_execute) = DOMAIN plan
        /\ \A i \in 1..Len(executed) : \A dep \in Range(plan[executed[i]]) :
              \E j \in 1..(i - 1) : executed[j] = dep
        /\ pc = "done" => Range(executed) = DOMAIN plan

\* a finished run of a plan in which a step depends on another
C10_Witness ==
    /\ pc = "done"
    /\ Len(executed) >= 2
    /\ \E s \in DOMAIN plan : plan[s] # <<>>


-----------------------------------------------------------------------------
(* The shelf of snapshots: properties (under SpecSnapshots) *)

\* the local data of record r in the files f
DataOf(f, r) ==
    LET here == {q \in DOMAIN f : IsPrefix(snapshot_path(r), q)}
    IN [q \in here |-> f[q]]

\* the roll-up checksum of a manifest: SHA-256 over the entries in sorted
\* order, each path followed by its checksum
RollUp(manifest) == Sha256(Fed(manifest, SortedRels(DOMAIN manifest)))

\* the local data of record r hashes to the recorded checksum
LocalMatches(f, r) ==
    IF r.snapshot_type = "file"
    THEN snapshot_path(r) \in DOMAIN f /\ Sha256(f[snapshot_path(r)]) = r.checksum
    ELSE /\ DataOf(f, r) # <<>>
         /\ RollUp([rel \in {relative_to(q, snapshot_path(r)) : q \in DOMAIN DataOf(f, r)}
                       |-> Sha256(f[snapshot_path(r) \o rel])]) = r.checksum

\* every file the record names holds the recorded content
HoldsRecorded(f, r) ==
    IF r.snapshot_type = "file"
    THEN snapshot_path(r) \in DOMAIN f /\ Sha256(f[snapshot_path(r)]) = r.checksum
    ELSE \A rel \in DOMAIN r.manifest :
            /\ snapshot_path(r) \o rel \in DOMAIN f
            /\ Sha256(f[snapshot_path(r) \o rel]) = r.manifest[rel]

\* some local file of the record was overwritten with other bytes
Overwritten(f, r) == \E q \in DOMAIN DataOf(f, r) : f[q] = Modified

RunWithoutForce == pc \in {"executing", "done", "failed"} /\ last.op = "run" /\ ~last.force

\* C4: in a run without force, a snapshot whose local data matched its
\* recorded checksum when the run was planned is not executed, nothing is
\* downloaded to its data and its data is unchanged; and when the run has
\* completed, every snapshot that had a local file overwritten with other
\* bytes holds the recorded content again.
C4_RunRestoresOnlyOutOfDate ==
    RunWithoutForce =>
        \A step \in DOMAIN dag :
            LET r == load(meta, step.path)
            IN /\ LocalMatches(fs0, r) =>
                      /\ step \notin Range(executed) \cup Range(to_execute)
                      /\ downloaded \cap DOMAIN DataOf(fs, r) = {}
                      /\ DataOf(fs, r) = DataOf(fs0, r)
               /\ (pc = "done" /\ Overwritten(fs0, r)) => HoldsRecorded(fs, r)

\* two registered snapshots, one matching and one overwritten when the run
\* was planned; the run has completed and has restored the overwritten one
C4_Witness ==
    /\ RunWithoutForce
    /\ pc = "done"
    /\ \E s1, s2 \in DOMAIN dag :
          /\ load(meta, s1.path) # load(meta, s2.path)
          /\ LocalMatches(fs0, load(meta, s1.path))
          /\ Overwritten(fs0, load(meta, s2.path))
          /\ s2 \in Range(executed)
          /\ HoldsRecorded(fs, load(meta, s2.path))

\* C5: a file was registered as a snapshot, its record is the one the
\* registration wrote, and its local data file was gone when a run was
\* planned; when the run has completed, a file is at the data path the
\* registration copied it to, with the original bytes.
C5_DeletedFileIsRestoredInPlace ==
    (pc = "done" /\ last.op = "run") =>
        \A u \in DOMAIN created :
            (/\ created[u].snapshot_type = "file"
             /\ load(meta, u.path).uri = u
             /\ load(meta, u.path).checksum = Sha256(created[u].bytes)
             /\ created[u].data_path \notin DOMAIN fs0)
                => /\ created[u].data_path \in DOMAIN fs
                   /\ fs[created[u].data_path] = created[u].bytes

\* C9: an audit of a registry with a directory snapshot whose recorded
\* checksum is not the roll-up of its recorded manifest: without fix it
\* raises and the records are unchanged; with fix it returns, every such
\* record holds the roll-up of its manifest and is otherwise unchanged, and
\* an audit without fix passes.
BadRecords(m) ==
    {mp \in DOMAIN m : m[mp].snapshot_type = "directory"
                         /\ m[mp].checksum # RollUp(m[mp].manifest)}

C9_AuditRaisesOrRepairs ==
    (last.op = "audit" /\ BadRecords(last.meta0) # {}) =>
        /\ ~last.fix => ~last.ok /\ meta = last.meta0
        /\ last.fix =>
              /\ last.ok
              /\ BadRecords(meta) = {}
              /\ DOMAIN meta = DOMAIN last.meta0
              /\ \A mp \in DOMAIN meta :
                    [meta[mp] EXCEPT !.checksum = Zeros]
                        = [last.meta0[mp] EXCEPT !.checksum = Zeros]
              /\ ~audit_raises(meta, dag, FALSE)

\* an audit with fix has repaired a corrupted directory record
C9_Witness ==
    /\ last.op = "audit"
    /\ last.fix
    /\ BadRecords(last.meta0) # {}
    /\ BadRecords(meta) = {}

\* an audit without fix has raised on a corrupted directory record
C9_WitnessRaise ==
    /\ last.op = "audit"
    /\ ~last.fix
    /\ ~last.ok
    /\ BadRecords(last.meta0) # {}


-----------------------------------------------------------------------------
(* Fetching a directory snapshot whose record came with the repository *)

MaxEntries == 2

\* the record of the directory snapshot is registered under this name
FetchName == StepTable[3].path

Contents == {"Hello, World!", "Hello, Cosmos!"}

\* the manifests a record may hold: up to MaxEntries relative paths, each
\* with the checksum of some content of the store
Manifests ==
    UNION {[rels -> {Sha256(b) : b \in Contents}] :
              rels \in {R \in SUBSET Range(RelTable) : Cardinality(R) \in 1..MaxEntries}}

InitFetch ==
    /\ \E manifest \in Manifests :
          meta = (snapshot_metadata_path(FetchName) :>
                     [uri |-> SnapshotUri(FetchName),
                      checksum |-> checksum_manifest(manifest),
                      snapshot_type |-> "directory",
                      version |-> 1,
                      manifest |-> manifest])
    /\ dag = (SnapshotUri(FetchName) :> <<>>)
    /\ store = [key \in {s3_path(Sha256(b)) : b \in Contents} |->
                   CHOOSE b \in Contents : s3_path(Sha256(b)) = key]
    /\ fs = <<>>
    /\ pc = "idle"
    /\ args = NoArgs
    /\ selected = <<>>
    /\ plan = <<>>
    /\ to_execute = <<>>
    /\ executed = <<>>
    /\ last = NoOp
    /\ fs0 = <<>>
    /\ downloaded = {}
    /\ created = <<>>
    /\ version = 1
    /\ edits = 0

NextFetch ==
    \/ PlanRun(BOOLEAN)
    \/ PlanRunRaise
    \/ StartExecute
    \/ FetchStepOk
    \/ FetchStepRaise
    \/ Finish
    \/ Return

SpecFetch == InitFetch /\ [][NextFetch]_vars

\* C8: every file a fetch of a directory snapshot has downloaded lies in the
\* snapshot's own data directory data/snapshots/<dataset>/.
C8_FetchWritesInsideDatasetRoot ==
    \A q \in downloaded :
        IsPrefix(snapshot_path(load(meta, FetchName)), q)


-----------------------------------------------------------------------------
(* The shelf of tables: properties (under SpecTables) *)

\* the dependency-metadata paths a table's input_manifest records: its
\* entries other than the script
RecordedDependencies(u) ==
    {k \in Keys(meta[_metadata_path(u)].input_manifest) : k[1] = "data"}

\* the metadata paths of the dependencies the registry declares for a table
DeclaredDependencies(u) == {_metadata_path(dag[u][i]) : i \in 1..Len(dag[u])}

\* every recorded input still exists and rehashes to the recorded value
InputsUnchanged(u) ==
    \A i \in 1..Len(meta[_metadata_path(u)].input_manifest) :
        LET item == meta[_metadata_path(u)].input_manifest[i]
        IN /\ item[1] \in DOMAIN fs \cup DOMAIN meta
           /\ item[2] = Sha256(IF item[1] \in DOMAIN meta THEN dump(meta[item[1]])
                               ELSE fs[item[1]])

HasDimensionColumn(bytes) ==
    \E i \in 1..Len(_infer_schema(bytes)) : _infer_schema(bytes)[i][1][1] = "dim_"

BuildProduced == last.op = "build" /\ last.produced

MetadataWritten(u) ==
    /\ _metadata_path(u) \in DOMAIN meta
    /\ meta[_metadata_path(u)].uri = u
    /\ meta[_metadata_path(u)].checksum = Sha256(fs[table_path(u)])
    /\ meta[_metadata_path(u)].schema = _infer_schema(fs[table_path(u)])

C7_WitnessWritten ==
    /\ BuildProduced
    /\ last.ok
    /\ dag[last.uri] # <<>>

-----------------------------------------------------------------------------
(* The executor in a dry run: properties (under SpecFetch) *)

\* C11: in a run with dry_run set, no step is executed, nothing is
\* downloaded, and the data files are the ones the run was planned on.
C11_DryRunExecutesNothing ==
    (last.op = "run" /\ last.dry_run) =>
        /\ executed = <<>>
        /\ downloaded = {}
        /\ pc \in {"executing", "done", "failed"} => fs = fs0

-----------------------------------------------------------------------------
(* The executor on the shelf of snapshots: properties (under SpecSnapshots) *)

\* the step at the head of the execution order raises when it is executed
HeadRaises ==
    /\ pc = "executing"
    /\ to_execute # <<>>
    /\ ~fetch(fs, store, load(meta, Head(to_execute).path)).ok

\* C12: when the step being executed raises, the run ends as failed at that
\* step: the step is not recorded as executed, the steps after it stay
\* unexecuted, the records and the object store are unchanged and so is the
\* local data of every step already executed in this run; from a failed run
\* nothing more is executed, the command only returns.
C12_FailedStepHaltsTheRun ==
    [][/\ HeadRaises =>
            /\ pc' = "failed"
            /\ executed' = executed
            /\ to_execute' = to_execute
            /\ meta' = meta
            /\ store' = store
            /\ \A step \in Range(executed) :
                   DataOf(fs', load(meta, step.path)) = DataOf(fs, load(meta, step.path))
       /\ pc = "failed" => (pc' = "idle" /\ worldVars' = worldVars)]_vars

\* a forced run has restored one snapshot and has failed at the next one,
\* which is left unexecuted; the restored data is in place
C12_Witness ==
    /\ pc = "failed"
    /\ last.op = "run"
    /\ Len(executed) = 1
    /\ to_execute # <<>>
    /\ load(meta, executed[1].path) # load(meta, Head(to_execute).path)
    /\ HoldsRecorded(fs, load(meta, executed[1].path))
    /\ ~HoldsRecorded(fs0, load(meta, executed[1].path)) \/ last.force

-----------------------------------------------------------------------------
(* The planner and the executor within one run: properties (under Spec) *)

\* the steps of d that list a step of S among their dependencies
Dependents(d, S) == {s \in DOMAIN d : Range(d[s]) \cap S # {}}

\* C13: when a run has completed, every selected step that depends on a step
\* executed in the run has been executed in the run as well.
C13_DependentOfExecutedStepIsExecuted ==
    pc = "done" => Dependents(selected, Range(executed)) \subseteq Range(executed)

-----------------------------------------------------------------------------
(* types.py: the textual form of a step URI; dataset names *)

\* A text is a sequence of characters. The characters of a path and of a
\* dataset name are drawn from small alphabets; a scheme, a date and a word
\* are each held as one character, which no separator lies across.

\* the longest path of a URI and the longest dataset name, in characters
MaxLen == 3

\* the sequences over S of length at most n
RECURSIVE SeqsUpTo(_, _)
SeqsUpTo(S, n) ==
    IF n = 0 THEN {<<>>}
    ELSE LET shorter == SeqsUpTo(S, n - 1)
         IN shorter \cup {Append(t, c) : t \in shorter, c \in S}

\* text.startswith(prefix)
startswith(text, prefix) ==
    Len(prefix) <= Len(text) /\ SubSeq(text, 1, Len(prefix)) = prefix

RECURSIVE SplitFrom(_, _, _)
\* str.split(sep), the scan: part is the text read since the last separator
SplitFrom(text, sep, part) ==
    IF text = <<>> THEN <<part>>
    ELSE IF startswith(text, sep)
    THEN <<part>> \o SplitFrom(SubSeq(text, Len(sep) + 1, Len(text)), sep, <<>>)
    ELSE SplitFrom(Tail(text), sep, Append(part, Head(text)))

\* text.split(sep)
split(text, sep) == SplitFrom(text, sep, <<>>)

RECURSIVE join(_, _)
\* sep.join(parts)
join(sep, parts) ==
    IF parts = <<>> THEN <<>>
    ELSE IF Len(parts) = 1 THEN parts[1]
    ELSE parts[1] \o sep \o join(sep, Tail(parts))

SchemeSep == <<":", "/", "/">>

\* StepURI.uri, StepURI.__str__: f"{self.scheme}://{self.path}"
str(u) == <<u.scheme>> \o SchemeSep \o u.path

\* StepURI.parse raises: the unpacking of the split needs two parts exactly,
\* and the scheme must be known
parse_raises(text) ==
    LET parts == split(text, SchemeSep)
    IN Len(parts) # 2 \/ parts[1] \notin {<<"snapshot">>, <<"table">>}

\* StepURI.parse
parse(text) ==
    LET parts == split(text, SchemeSep)
    IN [scheme |-> parts[1][1], path |-> parts[2]]

\* StepURI.__eq__
uri_eq(u, v) == str(u) = str(v)

\* the characters of a path
PathChars == {"a", "b", ":", "/"}

\* StepURI(scheme, path): the dataclass checks neither field
StepURIs == [scheme : {"snapshot", "table", "file"}, path : SeqsUpTo(PathChars, MaxLen)]

\* the characters of a dataset name: the separator, two words, a date, and
\* the rest of a segment that goes on after a date
NameChars == {"/", "foo", "latest", "2024-07-26", ".1"}

DatasetNames == SeqsUpTo(NameChars, MaxLen) \ {<<>>}

\* what datetime.today().strftime("%Y-%m-%d") may return
Dates == {"2024-07-26", "2026-11-03"}

\* only a date is a version, the word latest is not
_is_valid_version_date_only(v) == v # <<>> /\ v[1] \in Dates

\* Shelf._is_valid_version: re.match(r"\d{4}-\d{2}-\d{2}", version) matches
\* at the start of the segment, whatever follows the date
_is_valid_version(v) == (v # <<>> /\ v[1] \in Dates) \/ v = <<"latest">>

\* Shelf._process_dataset_name raises
_process_dataset_name_raises(dataset_name) ==
    LET parts == split(dataset_name, <<"/">>)
    IN _is_valid_version(parts[Len(parts)]) /\ Len(parts) = 1

\* Shelf._process_dataset_name
_process_dataset_name(dataset_name, today) ==
    LET parts == split(dataset_name, <<"/">>)
    IN IF _is_valid_version(parts[Len(parts)])
       THEN dataset_name
       ELSE join(<<"/">>, Append(parts, <<today>>))

\* no registry, no files: the functions of types.py and the dataset names
InitText ==
    /\ dag = <<>>
    /\ version = 1
    /\ pc = "idle"
    /\ args = NoArgs
    /\ selected = <<>>
    /\ plan = <<>>
    /\ to_execute = <<>>
    /\ executed = <<>>
    /\ fs = <<>>
    /\ meta = <<>>
    /\ store = <<>>
    /\ last = NoOp
    /\ fs0 = <<>>
    /\ downloaded = {}
    /\ created = <<>>
    /\ edits = 0

\* StepURI.parse(str(u)) of a URI u
ParseStr ==
    \E u \in StepURIs :
        /\ last = NoOp
        /\ last' = [op |-> "parse", u |-> u, ok |-> ~parse_raises(str(u)),
                    result |-> IF parse_raises(str(u)) THEN <<>> ELSE parse(str(u))]
        /\ UNCHANGED <<dag, version, runVars, worldVars, fs0, downloaded, created, edits>>

\* Shelf._process_dataset_name(dataset_name), called on the day today
ProcessDatasetName ==
    \E dataset_name \in DatasetNames, today \in Dates :
        /\ last = NoOp
        /\ last' = [op |-> "name", dataset_name |-> dataset_name, today |-> today,
                    ok |-> ~_process_dataset_name_raises(dataset_name),
                    result |-> IF _process_dataset_name_raises(dataset_name) THEN <<>>
                               ELSE _process_dataset_name(dataset_name, today)]
        /\ UNCHANGED <<dag, version, runVars, worldVars, fs0, downloaded, created, edits>>

NextText ==
    \/ ParseStr
    \/ ProcessDatasetName

SpecText == InitText /\ [][NextText]_vars

-----------------------------------------------------------------------------
(* Step URIs and dataset names: properties (under SpecText) *)

\* C17: for every URI u of scheme snapshot or table, StepURI.parse(str(u))
\* returns u, and u equals another such URI exactly when both have the same
\* scheme and the same path.
C17_ParseOfStrIsIdentity ==
    (last.op = "parse" /\ last.u.scheme \in {"snapshot", "table"}) =>
        /\ last.ok
        /\ last.result = last.u
        /\ \A v \in StepURIs :
              v.scheme \in {"snapshot", "table"} => (uri_eq(last.u, v) <=> last.u = v)

\* the segments of a dataset name
Segments(dataset_name) == split(dataset_name, <<"/">>)

LastSegment(dataset_name) == Segments(dataset_name)[Len(Segments(dataset_name))]

\* a version token: a date, or the word latest
IsVersion(v) == Len(v) = 1 /\ v[1] \in Dates \cup {"latest"}

\* a segment whose text starts with a date, or the word latest
StartsWithDateOrIsLatest(v) == (v # <<>> /\ v[1] \in Dates) \/ v = <<"latest">>

\* C18 as stated: a name of one segment that is not a version fails; a name
\* of two or more segments whose last one is not a version gets today's date
\* appended; a name whose last segment is a version and that has a name
\* segment is returned unchanged.
C18_SingleSegmentWithoutVersionFails ==
    last.op = "name" =>
        LET n == last.dataset_name
        IN /\ (Len(Segments(n)) = 1 /\ ~IsVersion(LastSegment(n))) => ~last.ok
           /\ (Len(Segments(n)) >= 2 /\ ~IsVersion(LastSegment(n))) =>
                  (last.ok /\ last.result = n \o <<"/", last.today>>)
           /\ (Len(Segments(n)) >= 2 /\ IsVersion(LastSegment(n))) =>
                  (last.ok /\ last.result = n)

\* C18: counting as a version a segment that starts with a date or is the
\* word latest: a name of one segment that is a version fails (it has no
\* name); a name whose last segment is not a version, of one segment or
\* more, gets today's date appended; a name whose last segment is a version
\* and that has a name segment is returned unchanged.
C18_SingleSegmentThatIsAVersionFails ==
    last.op = "name" =>
        LET n == last.dataset_name
        IN /\ (Len(Segments(n)) = 1 /\ StartsWithDateOrIsLatest(LastSegment(n))) => ~last.ok
           /\ ~StartsWithDateOrIsLatest(LastSegment(n)) =>
                  (last.ok /\ last.result = n \o <<"/", last.today>>)
           /\ (Len(Segments(n)) >= 2 /\ StartsWithDateOrIsLatest(LastSegment(n))) =>
                  (last.ok /\ last.result = n)

\* the name foo/latest was returned unchanged
C18_Witness ==
    /\ last.op = "name"
    /\ last.dataset_name = <<"foo", "/", "latest">>
    /\ last.ok
    /\ last.result = last.dataset_name

\* the one-segment name foo was given today's date
C18_WitnessAppended ==
    /\ last.op = "name"
    /\ last.dataset_name = <<"foo">>
    /\ last.ok
    /\ last.result = <<"foo", "/", last.today>>

-----------------------------------------------------------------------------
(* core.py: the registry shelf.yaml and the Shelf object *)

DEFAULT_SHELF_PATH == <<"shelf.yaml">>

\* Shelf.init, lines 40-47: the file written when there is none
InitConfig == [version |-> 1, data_dir |-> "data", steps |-> <<>>]

\* jsonschema.validate(config, SHELF_SCHEMA): the fields of a registry file
validate_raises(config) ==
    ~(/\ DOMAIN config \subseteq {"version", "data_dir", "steps"}
      /\ {"version", "steps"} \subseteq DOMAIN config)

\* some key or dependency of the file does not parse
steps_raise(config) ==
    \E s \in DOMAIN config.steps :
        \/ parse_raises(s)
        \/ \E i \in 1..Len(config.steps[s]) : parse_raises(config.steps[s][i])

\* Shelf.refresh raises
refresh_raises(config) == validate_raises(config) \/ steps_raise(config)

\* Shelf.refresh, lines 32-35: the steps parsed from the file
refresh_steps(config) ==
    [u \in {parse(s) : s \in DOMAIN config.steps} |->
        [i \in 1..Len(config.steps[str(u)]) |-> parse(config.steps[str(u)][i])]]

\* Shelf.save, lines 54-59: the document written; data_dir is not a field
\* of the Shelf object and is not written
save_config(ver, steps) ==
    [version |-> ver,
     steps |-> [s \in {str(k) : k \in DOMAIN steps} |->
                  LET k == CHOOSE x \in DOMAIN steps : str(x) = s
                  IN [i \in 1..Len(steps[k]) |-> str(steps[k][i])]]]

\* the table is overwritten, never refused
table_exists_never(steps, table_uri) == FALSE

\* new_table, line 65: table_uri in self.steps
table_exists(steps, table_uri) == \E k \in DOMAIN steps : uri_eq(k, table_uri)

\* Shelf.new_table(table_path, dependencies), table_name being its
\* table_path: how it ends, the steps held and the file left
new_table(steps, ver, config, table_name, dependencies) ==
    LET table_uri == [scheme |-> "table", path |-> table_name]
    IN IF table_exists(steps, table_uri)
       THEN [ok |-> FALSE, steps |-> steps, config |-> config]
       ELSE IF \E i \in 1..Len(dependencies) : parse_raises(dependencies[i])
       THEN \* line 68: the list is built before the assignment
            [ok |-> FALSE, steps |-> steps, config |-> config]
       ELSE LET steps1 == (table_uri :> [i \in 1..Len(dependencies) |->
                                            parse(dependencies[i])]) @@ steps
            IN [ok |-> TRUE, steps |-> steps1, config |-> save_config(ver, steps1)]

\* the table paths given to new_table
TablePaths == {<<"a">>, <<"b">>}

\* the dependency texts given to new_table or written by hand: a snapshot,
\* the two tables, and a text of unknown scheme
DepTexts == {str([scheme |-> "snapshot", path |-> <<"a">>]),
             str([scheme |-> "table", path |-> <<"a">>]),
             str([scheme |-> "table", path |-> <<"b">>]),
             str([scheme |-> "file", path |-> <<"a">>])}

\* the lists of dependencies given to new_table or written by hand: none,
\* each text alone, and the snapshot followed by the first table
DepLists == {<<>>} \cup {<<s>> : s \in DepTexts}
               \cup {<<str([scheme |-> "snapshot", path |-> <<"a">>]),
                       str([scheme |-> "table", path |-> <<"a">>])>>}

\* the keys written by hand
KeyTexts == {str([scheme |-> "snapshot", path |-> <<"a">>]),
             str([scheme |-> "table", path |-> <<"a">>])}

\* Shelf.init() in a directory without shelf.yaml
InitRegistry ==
    /\ dag = <<>>
    /\ version = 1
    /\ pc = "idle"
    /\ args = NoArgs
    /\ selected = <<>>
    /\ plan = <<>>
    /\ to_execute = <<>>
    /\ executed = <<>>
    /\ fs = <<>>
    /\ meta = (DEFAULT_SHELF_PATH :> InitConfig)
    /\ store = <<>>
    /\ last = NoOp
    /\ fs0 = <<>>
    /\ downloaded = {}
    /\ created = <<>>
    /\ edits = 0

\* Shelf.refresh returns
Refresh ==
    /\ ~refresh_raises(meta[DEFAULT_SHELF_PATH])
    /\ dag' = refresh_steps(meta[DEFAULT_SHELF_PATH])
    /\ version' = meta[DEFAULT_SHELF_PATH].version
    /\ last' = [op |-> "refresh", ok |-> TRUE, config |-> meta[DEFAULT_SHELF_PATH]]
    /\ UNCHANGED <<runVars, worldVars, fs0, downloaded, created, edits>>

\* Shelf.refresh raises: on a file the schema accepts, the version has been
\* assigned (line 31) when a key or a dependency fails to parse
RefreshRaise ==
    /\ refresh_raises(meta[DEFAULT_SHELF_PATH])
    /\ version' = IF validate_raises(meta[DEFAULT_SHELF_PATH]) THEN version
                  ELSE meta[DEFAULT_SHELF_PATH].version
    /\ last' = [op |-> "refresh", ok |-> FALSE]
    /\ UNCHANGED <<dag, runVars, worldVars, fs0, downloaded, created, edits>>

\* Shelf.save; loaded is the file the steps were just loaded from, if they were
Save ==
    /\ meta' = [meta EXCEPT ![DEFAULT_SHELF_PATH] = save_config(version, dag)]
    /\ last' = [op |-> "save", ok |-> TRUE,
                loaded |-> IF last.op = "refresh" /\ last.ok
                           THEN <<last.config>> ELSE <<>>]
    /\ UNCHANGED <<dag, version, runVars, fs, store, fs0, downloaded, created, edits>>

\* Shelf.new_table returns
NewTableOk ==
    \E table_name \in TablePaths, dependencies \in DepLists :
        LET res == new_table(dag, version, meta[DEFAULT_SHELF_PATH], table_name, dependencies)
        IN /\ res.ok
           /\ dag' = res.steps
           /\ meta' = [meta EXCEPT ![DEFAULT_SHELF_PATH] = res.config]
           /\ last' = [op |-> "new_table", ok |-> TRUE, table_path |-> table_name,
                       dependencies |-> dependencies, steps0 |-> dag,
                       config0 |-> meta[DEFAULT_SHELF_PATH]]
           /\ UNCHANGED <<version, runVars, fs, store, fs0, downloaded, created, edits>>

\* Shelf.new_table raises
NewTableRaise ==
    \E table_name \in TablePaths, dependencies \in DepLists :
        LET res == new_table(dag, version, meta[DEFAULT_SHELF_PATH], table_name, dependencies)
        IN /\ ~res.ok
           /\ dag' = res.steps
           /\ meta' = [meta EXCEPT ![DEFAULT_SHELF_PATH] = res.config]
           /\ last' = [op |-> "new_table", ok |-> FALSE, table_path |-> table_name,
                       dependencies |-> dependencies, steps0 |-> dag,
                       config0 |-> meta[DEFAULT_SHELF_PATH]]
           /\ UNCHANGED <<version, runVars, fs, store, fs0, downloaded, created, edits>>

\* the user writes one entry of the steps of shelf.yaml by hand
EditRegistry ==
    \E s \in KeyTexts, deps \in DepLists :
        LET config == meta[DEFAULT_SHELF_PATH]
        IN /\ Get(config.steps, s) # deps \/ s \notin DOMAIN config.steps
           /\ meta' = [meta EXCEPT ![DEFAULT_SHELF_PATH] =
                          [config EXCEPT !.steps = (s :> deps) @@ @]]
           /\ last' = NoOp
           /\ Edit
           /\ UNCHANGED <<dag, version, runVars, fs, store, fs0, downloaded, created>>

NextRegistry ==
    \/ Refresh
    \/ RefreshRaise
    \/ Save
    \/ NewTableOk
    \/ NewTableRaise
    \/ EditRegistry

SpecRegistry == InitRegistry /\ [][NextRegistry]_vars

-----------------------------------------------------------------------------
(* The registry: properties (under SpecRegistry) *)

\* the steps of the file shelf.yaml
FileSteps == meta[DEFAULT_SHELF_PATH].steps

\* C14: every dependency listed under a step, in the Shelf object and in
\* the file shelf.yaml, is itself a key of the steps.
C14_RegistryIsClosed ==
    /\ Closed(dag)
    /\ \A s \in DOMAIN FileSteps : Range(FileSteps[s]) \subseteq DOMAIN FileSteps

\* C15: no step of the Shelf object depends on itself, directly or through
\* other steps.
C15_RegistryIsAcyclic == Acyclic(dag)

\* C16: when a file has been loaded and the steps are saved at once, the
\* file written equals the file loaded: the same version, the same data_dir,
\* the same keys and the same list of dependencies for each key.
C16_SaveOfLoadIsIdentity ==
    (last.op = "save" /\ last.loaded # <<>>) => meta[DEFAULT_SHELF_PATH] = last.loaded[1]

\* the arguments of the last new_table
NewTableUri == [scheme |-> "table", path |-> last.table_path]

NewTableRefused ==
    /\ ~last.ok
    /\ dag = last.steps0
    /\ meta[DEFAULT_SHELF_PATH] = last.config0

NewTableAdded ==
    /\ last.ok
    /\ DOMAIN dag = DOMAIN last.steps0 \cup {NewTableUri}
    /\ \A k \in DOMAIN last.steps0 : dag[k] = last.steps0[k]
    /\ Len(dag[NewTableUri]) = Len(last.dependencies)
    /\ \A i \in 1..Len(last.dependencies) : str(dag[NewTableUri][i]) = last.dependencies[i]
    /\ DOMAIN FileSteps = {str(k) : k \in DOMAIN dag}
    /\ \A k \in DOMAIN dag :
          FileSteps[str(k)] = [i \in 1..Len(dag[k]) |-> str(dag[k][i])]

\* C19 as stated: new_table raises and leaves the steps and the file
\* unchanged when the table is already a key of the steps; otherwise it adds
\* that one key with the dependencies given, leaves every other entry
\* unchanged and saves.
C19_NewTableAddsUnlessRegistered ==
    last.op = "new_table" =>
        IF NewTableUri \in DOMAIN last.steps0 THEN NewTableRefused ELSE NewTableAdded

\* C19: new_table raises and leaves the steps and the file unchanged when the
\* table is already a key of the steps, and also when a dependency given does
\* not parse as a step URI; otherwise it adds that one key with the
\* dependencies given, leaves every other entry unchanged and saves.
C19_NewTableAddsUnlessRegisteredOrUnparsable ==
    last.op = "new_table" =>
        IF \/ NewTableUri \in DOMAIN last.steps0
           \/ \E i \in 1..Len(last.dependencies) : parse_raises(last.dependencies[i])
        THEN NewTableRefused
        ELSE NewTableAdded

\* new_table was refused for a table registered with a dependency, which
\* the table still has
C19_Witness ==
    /\ last.op = "new_table"
    /\ ~last.ok
    /\ NewTableUri \in DOMAIN last.steps0
    /\ last.steps0[NewTableUri] # <<>>
    /\ last.dependencies # [i \in 1..Len(last.steps0[NewTableUri]) |->
                               str(last.steps0[NewTableUri][i])]
    /\ dag[NewTableUri] = last.steps0[NewTableUri]

\* new_table added a table to a registry that held another step
C19_WitnessAdded ==
    /\ last.op = "new_table"
    /\ last.ok
    /\ last.steps0 # <<>>
    /\ NewTableUri \notin DOMAIN last.steps0

-----------------------------------------------------------------------------
(* Rows of a table: properties (under SpecTables) *)

\* the values of the dim_ columns, row by row, in the Parquet file
DimensionRows(bytes) ==
    CASE bytes = ParquetDim -> << <<1>>, <<2>>, <<3>> >>
      [] bytes = ParquetDup -> << <<1>>, <<1>>, <<3>> >>
      [] OTHER -> << <<>>, <<>>, <<>> >>

\* two rows have the same values in all dim_ columns
NonUniqueDimensions(bytes) ==
    \E i, j \in 1..Len(DimensionRows(bytes)) :
        i # j /\ DimensionRows(bytes)[i] = DimensionRows(bytes)[j]

\* C20: a build whose script produced an output with dim_ columns in which
\* two rows have the same values in all of them raises, and leaves the
\* table's metadata file as it was.
C20_NonUniqueDimensionsFail ==
    (/\ BuildProduced
     /\ HasDimensionColumn(fs[table_path(last.uri)])
     /\ NonUniqueDimensions(fs[table_path(last.uri)])) =>
        ~last.ok /\ Get(meta, _metadata_path(last.uri)) = last.before

-----------------------------------------------------------------------------
(* A shelf whose local files were disturbed after registration, with a disk
   cache next to it *)

\* the disk cache of the tests: Path.home() / ".cache" / "shelf"
CACHE_DIR == <<"~", ".cache", "shelf">>

\* the cache file of a content: <cc>/<cc>/<checksum> under the cache directory
cache_path(checksum) == CACHE_DIR \o <<"cc", "cc", checksum>>

\* snapshot_to_shelf of file1.txt, then of a directory of two files
Registered ==
    LET a == create_from_file(<<>>, <<>>, <<>>,
                              [suffix |-> ".txt", bytes |-> "Hello, World!"],
                              StepTable[1].path)
    IN create_from_directory(a.fs, a.meta, a.store,
                             CHOOSE tree \in LocalDirs : TRUE, StepTable[3].path)

\* a file nobody registered, left in the folder of the directory snapshot
StrayFile == SNAPSHOT_DIR \o StepTable[3].path.dir \o <<StepTable[3].path.stem, "extra.txt">>

\* the local files afterwards: the data files of keep as registered, those of
\* mod overwritten, the others removed; stray files; the contents of cached
\* moved or copied to the cache
Disturbed(keep, mod, stray, cached) ==
    LET cache == {cache_path(Sha256(b)) : b \in cached}
    IN [q \in keep \cup mod \cup stray \cup cache |->
           IF q \in keep THEN Registered.fs[q]
           ELSE IF q \in mod THEN Modified
           ELSE IF q \in stray THEN "stray"
           ELSE CHOOSE b \in cached : cache_path(Sha256(b)) = q]

InitRestore ==
    /\ dag = (StepTable[1] :> <<>>) @@ (StepTable[3] :> <<>>)
    /\ meta = Registered.meta
    /\ \E keys \in SUBSET DOMAIN Registered.store :
          store = [key \in keys |-> Registered.store[key]]
    /\ \E keep \in SUBSET DOMAIN Registered.fs, mod \in SUBSET DOMAIN Registered.fs,
          stray \in SUBSET {StrayFile}, cached \in SUBSET Contents :
          /\ keep \cap mod = {}
          /\ fs = Disturbed(keep, mod, stray, cached)
    /\ pc = "idle"
    /\ args = NoArgs
    /\ selected = <<>>
    /\ plan = <<>>
    /\ to_execute = <<>>
    /\ executed = <<>>
    /\ last = NoOp
    /\ fs0 = <<>>
    /\ downloaded = {}
    /\ created = <<>>
    /\ version = 1
    /\ edits = 0

NextRestore ==
    \/ PlanRun({FALSE})
    \/ StartExecute
    \/ FetchStepOk
    \/ FetchStepRaise
    \/ Finish
    \/ Return

SpecRestore == InitRestore /\ [][NextRestore]_vars

-----------------------------------------------------------------------------
(* The disk cache: properties (under SpecRestore) *)

\* the data file of the file snapshot r is missing
DataMissing(f, r) == r.snapshot_type = "file" /\ ~exists(f, snapshot_path(r))

\* the content of r is in the cache
InCache(f, r) ==
    /\ cache_path(r.checksum) \in DOMAIN f
    /\ Sha256(f[cache_path(r.checksum)]) = r.checksum

\* the run has executed step, or has raised in it
Reached(step) ==
    \/ step \in Range(executed)
    \/ pc = "failed" /\ Head(to_execute) = step

\* C21: when the content of a file snapshot is in the disk cache under
\* <cc>/<cc>/<checksum> and its data file is missing, the run restores the
\* data file with the recorded content and downloads nothing for it from the
\* object store; when the content is not in the cache, the run downloads it
\* and the data file is restored.
C21_CacheHitAvoidsObjectStore ==
    (last.op = "run" /\ pc \in {"executing", "done", "failed"}) =>
        \A step \in DOMAIN dag :
            LET r == load(meta, step.path)
            IN (DataMissing(fs0, r) /\ Reached(step)) =>
                  IF InCache(fs0, r)
                  THEN /\ step \in Range(executed)
                       /\ HoldsRecorded(fs, r)
                       /\ snapshot_path(r) \notin downloaded
                  ELSE step \in Range(executed) =>
                          /\ HoldsRecorded(fs, r)
                          /\ snapshot_path(r) \in downloaded

-----------------------------------------------------------------------------
(* A forced run: properties (under SpecRestore) *)

\* C22: with force set there is no dirty pruning: a run that completes has
\* executed every step of the selected DAG (every registered step, no regex
\* being given), those whose up-to-date test passed included, and afterwards
\* the local data of every snapshot equals its recorded content.
C22_ForceExecutesEveryStepAndRestores ==
    (pc = "done" /\ last.op = "run" /\ last.force) =>
        /\ selected = dag
        /\ Range(executed) = DOMAIN selected
        /\ \A step \in DOMAIN dag : LocalMatches(fs, load(meta, step.path))

-----------------------------------------------------------------------------
(* Registering snapshots, one after the other, on an empty shelf *)

\* the local directories registered here: that of the tests, and one that
\* holds a file checksum_folder ignores
LocalTrees ==
    LocalDirs \cup {(<<".DS_Store">> :> "Finder") @@ (<<"file1.txt">> :> "Hello, World!")}

NextCreate ==
    \/ SnapshotFile
    \/ SnapshotDirectory(LocalTrees)
    \/ SnapshotDirectoryRaise(LocalTrees)

SpecCreate == InitShelf /\ [][NextCreate]_vars

-----------------------------------------------------------------------------
(* Snapshot records at creation: properties (under SpecCreate) *)

\* the snapshot of name has just been created, as a snapshot of type
JustCreated(name, type) ==
    /\ SnapshotUri(name) \notin DOMAIN dag
    /\ SnapshotUri(name) \in DOMAIN dag'
    /\ created'[SnapshotUri(name)].snapshot_type = type

\* the files of a local tree that are not ignored
NonIgnored(tree) == {rel \in DOMAIN tree : rel[Len(rel)] \notin IGNORE_FILES}

\* C23: immediately after a directory snapshot is created, its record has
\* checksum = checksum_manifest(manifest), every manifest entry
\* (relative path, checksum) has a local file at data path / relative path
\* that hashes to that checksum, and the manifest has exactly one entry per
\* non-ignored file of the copied tree.
C23_DirectoryRecordMatchesCopiedTree ==
    [][\A name \in SnapshotNames :
          JustCreated(name, "directory") =>
              LET r == load(meta', name)
                  tree == created'[SnapshotUri(name)].bytes
              IN /\ r.uri = SnapshotUri(name)
                 /\ r.snapshot_type = "directory"
                 /\ r.checksum = RollUp(r.manifest)
                 /\ \A rel \in DOMAIN r.manifest :
                       /\ snapshot_path(r) \o rel \in DOMAIN fs'
                       /\ Sha256(fs'[snapshot_path(r) \o rel]) = r.manifest[rel]
                 /\ DOMAIN r.manifest = NonIgnored(tree)
                 /\ \A rel \in NonIgnored(tree) : r.manifest[rel] = Sha256(tree[rel])]_vars

\* a directory with an ignored file has been registered, under a name with a
\* dot in its last segment
C23_Witness ==
    \E u \in DOMAIN created :
        /\ created[u].snapshot_type = "directory"
        /\ u.path.sfx # ""
        /\ <<".DS_Store">> \in DOMAIN created[u].bytes
        /\ load(meta, u.path).uri = u
        /\ DOMAIN load(meta, u.path).manifest = {<<"file1.txt">>}

\* C24: immediately after a file snapshot is created, the file at the data
\* path its record resolves to (data/snapshots/<dataset><extension>) exists
\* and hashes to the recorded checksum, whatever the name of the source file
\* (one without extension included), and the path create has written is the
\* path the up-to-date test reads and fetch writes.
C24_FileRecordMatchesDataFile ==
    [][\A name \in SnapshotNames :
          JustCreated(name, "file") =>
              LET r == load(meta', name)
              IN /\ r.uri = SnapshotUri(name)
                 /\ r.snapshot_type = "file"
                 /\ snapshot_path(r) \in DOMAIN fs'
                 /\ Sha256(fs'[snapshot_path(r)]) = r.checksum
                 /\ created'[SnapshotUri(name)].data_path = snapshot_path(r)]_vars

-----------------------------------------------------------------------------
(* Descriptive fields of a table's record: properties (under SpecTables) *)

\* the records, that of step without its descriptive fields
Undescribed(m, step) ==
    LET mp == _metadata_path(step)
    IN [m EXCEPT ![mp] = [k \in DOMAIN m[mp] \ Range(DescriptiveFields) |-> m[mp][k]]]

\* C25: a build of a table with exactly one dependency copies each of the
\* fields name, source_name, source_url, date_accessed, access_notes that the
\* dependency's record holds into the table's record (the build ending as it
\* does when the dependency's record holds none of them); a build of a table
\* with no dependency, or with two or more, inherits none of these fields.
C25_SingleDependencyFieldsAreInherited ==
    [][last'.op = "build" =>
          LET u == last'.uri
              deps == dag[u]
          IN IF Len(deps) = 1
             THEN (/\ _metadata_path(deps[1]) \in DOMAIN meta
                   /\ build_table(fs, Undescribed(meta, deps[1]), u, deps).ok) =>
                      /\ last'.ok
                      /\ \A field \in Range(DescriptiveFields) \cap DOMAIN meta[_metadata_path(deps[1])] :
                            /\ field \in DOMAIN meta'[_metadata_path(u)]
                            /\ meta'[_metadata_path(u)][field] = meta[_metadata_path(deps[1])][field]
             ELSE last'.ok =>
                      Range(DescriptiveFields) \cap DOMAIN meta'[_metadata_path(u)] = {}]_vars

-----------------------------------------------------------------------------
(* tables.py: the names of the dependencies in an SQL script *)

\* number of dependencies of an SQL step
MaxDeps == 2

\* the versions, as texts: a sequence of characters, several of them held in
\* one where the functions never look inside
Versions == {<<"2024", "-", "07", "-", "26">>, <<"latest">>}

\* the directories of the dependency paths, as pathlib's parts; the last one
\* has a segment with an underscore in it
DepDirs ==
    { << <<"a">>, <<"c">> >>,
      << <<"b">>, <<"c">> >>,
      << <<"ns">>, <<"a">>, <<"c">> >>,
      << <<"a", "_", "c">> >> }

\* the dependency paths a/b/c/<version>
DepPaths == {Append(dir, v) : dir \in DepDirs, v \in Versions}

\* the lists of distinct dependency paths
DepPathLists ==
    {l \in SeqsUpTo(DepPaths, MaxDeps) : \A i, j \in 1..Len(l) : l[i] = l[j] => i = j}

\* version.replace("-", "")
remove_dashes(text) == SelectSeq(text, LAMBDA c : c # "-")

\* _generate_candidate_names(dep): the k-th name yielded, k >= 1. The first is
\* parts[-2]; each of the next ones has one more part to the left; when the
\* parts before the last are used up, the name they make is yielded for ever.
_generate_candidate_names(dep, k) ==
    LET n == Len(dep)
        used == IF k < n - 1 THEN k ELSE n - 1
    IN join(<<"_">>, SubSeq(dep, n - used, n - 1))

\* the state of the generator of dep after k calls of next(): from the
\* (len(parts) - 1)-th call on it is in its last loop
Drawn(dep, k) == IF k < Len(dep) - 1 THEN k ELSE Len(dep) - 1

\* Counter(frontier.values()): the names at least two dependencies have
Duplicates(frontier) ==
    {frontier[d] : d \in {e \in DOMAIN frontier :
                             \E o \in DOMAIN frontier : o # e /\ frontier[o] = frontier[e]}}

\* PurePath.__eq__(path, text): a path equals no str
path_eq_str(d, text) == FALSE

\* the name of the dependency is looked up
name_in_duplicates(d, name, duplicates) == name \in duplicates

\* lines 150 and 162, d in duplicates: the dependency path is looked up in
\* the set of names
in_duplicates(d, name, duplicates) == \E k \in duplicates : path_eq_str(d, k)

RECURSIVE MapFrontier(_, _, _, _)
\* lines 149-152 and 161-164: in the order of the list, every dependency of
\* the frontier that is not found in duplicates gets its name, a later one
\* with the same name taking the place of an earlier one, and leaves the frontier
MapFrontier(deps, frontier, duplicates, mapping) ==
    IF deps = <<>> THEN [frontier |-> frontier, mapping |-> mapping]
    ELSE LET d == Head(deps)
         IN IF d \in DOMAIN frontier /\ ~in_duplicates(d, frontier[d], duplicates)
            THEN MapFrontier(Tail(deps), [e \in DOMAIN frontier \ {d} |-> frontier[e]],
                             duplicates, (frontier[d] :> d) @@ mapping)
            ELSE MapFrontier(Tail(deps), frontier, duplicates, mapping)

\* _simplify_dependency_names, lines 142-154: the locals when the loop is reached
simplify_first(deps) ==
    LET frontier == [d \in Range(deps) |-> _generate_candidate_names(d, 1)]
        duplicates == Duplicates(frontier)
        mapped == MapFrontier(deps, frontier, duplicates, <<>>)
    IN [deps |-> deps,
        drawn |-> [d \in Range(deps) |-> Drawn(d, 1)],
        frontier |-> mapped.frontier,
        mapping |-> mapped.mapping,
        duplicates |-> duplicates,
        last_duplicates |-> duplicates,
        looped |-> FALSE,
        raised |-> FALSE]

\* _simplify_dependency_names, lines 156-164: one round of the loop
simplify_round(l) ==
    LET drawn == [d \in DOMAIN l.drawn |->
                     IF d \in DOMAIN l.frontier THEN Drawn(d, l.drawn[d] + 1) ELSE l.drawn[d]]
        frontier == [d \in DOMAIN l.frontier |->
                        _generate_candidate_names(d, l.drawn[d] + 1)]
        duplicates == Duplicates(frontier)
        mapped == MapFrontier(l.deps, frontier, duplicates, l.mapping)
    IN IF duplicates = l.last_duplicates
       THEN [l EXCEPT !.drawn = drawn, !.frontier = frontier, !.duplicates = duplicates,
                      !.looped = TRUE, !.raised = TRUE]
       ELSE [l EXCEPT !.drawn = drawn, !.frontier = mapped.frontier,
                      !.mapping = mapped.mapping, !.duplicates = duplicates,
                      !.looped = TRUE]

\* _exec_sql_command calls _simplify_dependency_names(command[1:-1])
SimplifyCall ==
    \E deps \in DepPathLists :
        /\ pc = "idle"
        /\ args' = simplify_first(deps)
        /\ pc' = "simplifying"
        /\ UNCHANGED <<dag, version, selected, plan, to_execute, executed, worldVars, histVars>>

\* while duplicates: one round, which may raise
SimplifyRound ==
    /\ pc = "simplifying"
    /\ args.duplicates # {}
    /\ args' = simplify_round(args)
    /\ pc' = IF args'.raised THEN "failed" ELSE "simplifying"
    /\ last' = IF args'.raised
               THEN [op |-> "simplify", ok |-> FALSE, deps |-> args.deps, looped |-> TRUE]
               ELSE last
    /\ UNCHANGED <<dag, version, selected, plan, to_execute, executed, worldVars,
                   fs0, downloaded, created, edits>>

\* return mapping
SimplifyReturn ==
    /\ pc = "simplifying"
    /\ args.duplicates = {}
    /\ pc' = "done"
    /\ last' = [op |-> "simplify", ok |-> TRUE, deps |-> args.deps,
                looped |-> args.looped, result |-> args.mapping]
    /\ UNCHANGED <<dag, version, args, selected, plan, to_execute, executed, worldVars,
                   fs0, downloaded, created, edits>>

NextNames ==
    \/ SimplifyCall
    \/ SimplifyRound
    \/ SimplifyReturn
    \/ Return

SpecNames == InitText /\ [][NextNames]_vars

\* a call that has started goes on: the interpreter runs the loop
SpecNamesLive == SpecNames /\ WF_vars(SimplifyRound) /\ WF_vars(SimplifyReturn)

-----------------------------------------------------------------------------
(* The names of the dependencies: properties (under SpecNames) *)

Returned == pc = "done" /\ last.op = "simplify" /\ last.ok

\* the names the returned mapping gives dependency d
NamesOf(d) == {name \in DOMAIN last.result : last.result[name] = d}

\* C26: for every list of distinct dependency paths the mapping returned by
\* _simplify_dependency_names has exactly one name per dependency, and so
\* distinct names for distinct dependencies; two dependencies with the same
\* penultimate segment are both in it.
C26_OneNamePerDependency ==
    Returned =>
        /\ \A d \in Range(last.deps) : Cardinality(NamesOf(d)) = 1
        /\ Cardinality(DOMAIN last.result) = Len(last.deps)

\* the first n names the generator yields for a path of n parts
Candidates(dep) == [k \in 1..Len(dep) |-> _generate_candidate_names(dep, k)]

\* lists of two dependencies that differ in their version only
DifferInVersionOnly(deps) ==
    /\ Len(deps) = 2
    /\ SubSeq(deps[1], 1, Len(deps[1]) - 1) = SubSeq(deps[2], 1, Len(deps[2]) - 1)
    /\ deps[1] # deps[2]

\* C28: the first candidate name of a dependency path is its penultimate
\* segment, each next one has one more segment to its left, and the one after
\* the segments are used up is the full name with the version, its dashes
\* removed, appended; two dependencies that differ only in their version
\* get distinct names, not an error.
C28_CandidatesEndWithVersion ==
    (pc \in {"done", "failed"} /\ last.op = "simplify") =>
        /\ \A dep \in Range(last.deps) :
              LET n == Len(dep)
              IN /\ Candidates(dep)[1] = dep[n - 1]
                 /\ \A k \in 2..(n - 1) :
                       Candidates(dep)[k] = dep[n - k] \o <<"_">> \o Candidates(dep)[k - 1]
                 /\ Candidates(dep)[n] =
                       join(<<"_">>, SubSeq(dep, 1, n - 1)) \o <<"_">> \o remove_dashes(dep[n])
        /\ DifferInVersionOnly(last.deps) =>
              /\ last.ok
              /\ \E n1, n2 \in DOMAIN last.result :
                    /\ n1 # n2
                    /\ last.result[n1] = last.deps[1]
                    /\ last.result[n2] = last.deps[2]

\* C29: a call of _simplify_dependency_names ends, by returning a mapping or
\* by raising the error of a round without progress; the loop does not go on
\* for ever.
C29_SimplifyTerminates == (pc = "simplifying") ~> (pc \in {"done", "failed"})

\* a call with dependencies whose first names collide has gone through the
\* loop and has returned
C29_Witness ==
    /\ Returned
    /\ last.looped
    /\ \E i, j \in 1..Len(last.deps) :
          i # j /\ Candidates(last.deps[i])[1] = Candidates(last.deps[j])[1]

-----------------------------------------------------------------------------
(* The order of execution: properties (under Spec) *)

\* the steps of d that are ready once the steps of S have been executed
ReadyAfter(d, S) == {s \in DOMAIN d \ S : Range(d[s]) \subseteq S}

\* C27: the order of execution is determined by the planned sub-DAG alone:
\* of the steps that are ready at the same time (all their dependencies
\* executed) the one with the smaller URI text is executed first, whatever
\* the order of the steps in the registry or in the planned sub-DAG.
C27_ReadyStepsRunInUriOrder ==
    pc \in {"executing", "done", "failed"} =>
        LET order == executed \o to_execute
        IN \A i \in 1..Len(order) :
              LET ready == ReadyAfter(plan, {order[j] : j \in 1..(i - 1)})
              IN /\ order[i] \in ready
                 /\ \A s \in ready : s = order[i] \/ StepLt(order[i], s)

-----------------------------------------------------------------------------
(* A build whose script writes nothing: properties (under SpecTables) *)

\* the command of table u can be built and its script ends without writing
\* the output
ScriptWritesNothing(f, m, u) ==
    /\ ~_get_executable_raises(f, u)
    /\ \A i \in 1..Len(dag[u]) :
          dag[u][i].scheme = "snapshot" => ~load_raises(m, dag[u][i].path)
    /\ run_script(f[_get_executable(f, u)]).returncode = 0
    /\ ~run_script(f[_get_executable(f, u)]).writes

\* C30: a build removes the output file of an earlier build before the
\* script runs, and raises the build error that names the URI when the
\* script ends without creating the output: after such a build there is no
\* file at the output path and the table is not up to date.
C30_BuildWithoutOutputLeavesNone ==
    [][(last'.op = "build" /\ ScriptWritesNothing(fs, meta, last'.uri)) =>
          /\ ~last'.ok
          /\ last'.error = no_output_error(last'.uri)
          /\ table_path(last'.uri) \notin DOMAIN fs'
          /\ ~table_is_completed(fs', meta', last'.uri, dag'[last'.uri])]_vars

\* a table that had been built, and was up to date but for its script, has
\* been built again with a script that writes nothing
C30_Witness ==
    /\ last.op = "build"
    /\ ~last.ok
    /\ last.error = no_output_error(last.uri)
    /\ last.before # <<>>
    /\ _metadata_path(last.uri) \in DOMAIN meta
    /\ fs[_get_executable(fs, last.uri)] = ScriptNoOutput

-----------------------------------------------------------------------------
(* core.py: Shelf.get_latest_version *)

\* the characters of the URIs below in ascending order of their code points;
\* a date and a word are held as one character each, none of them the
\* beginning of another
CharTable ==
    <<"/", "2024-07-26", "2025-01-01", ":", "a", "b", "c", "latest", "snapshot", "table">>

CharRank(c) == CHOOSE i \in 1..Len(CharTable) : CharTable[i] = c

RECURSIVE text_lt(_, _)
\* str.__lt__: the texts compared character by character
text_lt(s, t) ==
    IF t = <<>> THEN FALSE
    ELSE IF s = <<>> THEN TRUE
    ELSE IF Head(s) = Head(t) THEN text_lt(Tail(s), Tail(t))
    ELSE CharRank(Head(s)) < CharRank(Head(t))

\* StepURI.__lt__
uri_lt(u, v) == text_lt(str(u), str(v))

\* max(versions)
max_uri(versions) == CHOOSE m \in versions : \A v \in versions : v = m \/ uri_lt(v, m)

\* text.endswith(suffix)
endswith(text, suffix) ==
    Len(suffix) <= Len(text)
        /\ SubSeq(text, Len(text) - Len(suffix) + 1, Len(text)) = suffix

\* text.rsplit("/", 1)[0]
rsplit_head(text) ==
    LET seps == {i \in 1..Len(text) : text[i] = "/"}
    IN IF seps = {} THEN text
       ELSE SubSeq(text, 1, (CHOOSE i \in seps : \A j \in seps : j <= i) - 1)

\* get_latest_version, lines 73-78
versions_of(steps, step) ==
    {s \in steps : s.scheme = step.scheme /\ startswith(s.path, rsplit_head(step.path))}

\* get_latest_version raises: the assertion, or max() of an empty list
get_latest_version_raises(steps, step) ==
    \/ ~endswith(step.path, <<"/", "latest">>)
    \/ versions_of(steps, step) = {}

get_latest_version(steps, step) == max_uri(versions_of(steps, step))

\* the URIs a registry may hold: two dated versions and latest of a/b, a
\* dataset a/bc, and tables of the same names
LatestUris ==
    {[scheme |-> "snapshot", path |-> <<"a", "/", "b", "/", "2024-07-26">>],
     [scheme |-> "snapshot", path |-> <<"a", "/", "b", "/", "2025-01-01">>],
     [scheme |-> "snapshot", path |-> <<"a", "/", "b", "/", "latest">>],
     [scheme |-> "snapshot", path |-> <<"a", "/", "b", "c", "/", "2024-07-26">>],
     [scheme |-> "table", path |-> <<"a", "/", "b", "/", "2025-01-01">>],
     [scheme |-> "table", path |-> <<"a", "/", "b", "c", "/", "latest">>]}

\* the URIs asked for
LatestQueries ==
    {[scheme |-> "snapshot", path |-> <<"a", "/", "b", "/", "latest">>],
     [scheme |-> "table", path |-> <<"a", "/", "b", "/", "latest">>],
     [scheme |-> "snapshot", path |-> <<"a", "/", "b", "c", "/", "latest">>]}

\* a shelf with some of the URIs registered, none with a dependency
InitLatest ==
    /\ \E registered \in SUBSET LatestUris : dag = [s \in registered |-> <<>>]
    /\ version = 1
    /\ pc = "idle"
    /\ args = NoArgs
    /\ selected = <<>>
    /\ plan = <<>>
    /\ to_execute = <<>>
    /\ executed = <<>>
    /\ fs = <<>>
    /\ meta = <<>>
    /\ store = <<>>
    /\ last = NoOp
    /\ fs0 = <<>>
    /\ downloaded = {}
    /\ created = <<>>
    /\ edits = 0

\* shelf.get_latest_version(step) returns
GetLatestVersion ==
    \E step \in LatestQueries :
        /\ last = NoOp
        /\ ~get_latest_version_raises(DOMAIN dag, step)
        /\ last' = [op |-> "latest", ok |-> TRUE, step |-> step,
                    result |-> get_latest_version(DOMAIN dag, step)]
        /\ UNCHANGED <<dag, version, runVars, worldVars, fs0, downloaded, created, edits>>

\* shelf.get_latest_version(step) raises
GetLatestVersionRaise ==
    \E step \in LatestQueries :
        /\ last = NoOp
        /\ get_latest_version_raises(DOMAIN dag, step)
        /\ last' = [op |-> "latest", ok |-> FALSE, step |-> step]
        /\ UNCHANGED <<dag, version, runVars, worldVars, fs0, downloaded, created, edits>>

NextLatest ==
    \/ GetLatestVersion
    \/ GetLatestVersionRaise

SpecLatest == InitLatest /\ [][NextLatest]_vars

-----------------------------------------------------------------------------
(* The latest version: properties (under SpecLatest) *)

\* the segments of a path before the last one
DatasetOf(path) ==
    LET segs == split(path, <<"/">>)
    IN SubSeq(segs, 1, Len(segs) - 1)

\* the registered URIs of the scheme and of the dataset of step
SameDataset(steps, step) ==
    {s \in steps : s.scheme = step.scheme /\ DatasetOf(s.path) = DatasetOf(step.path)}

\* C31: get_latest_version(u), for a URI u whose last segment is latest,
\* returns the maximum in URI order of the registered URIs that have the
\* scheme of u and the segments of u before the last; never a URI of another
\* dataset whose name begins with the same characters.
C31_LatestIsMaxOfSameDataset ==
    (last.op = "latest" /\ SameDataset(DOMAIN dag, last.step) # {}) =>
        /\ last.ok
        /\ last.result \in SameDataset(DOMAIN dag, last.step)
        /\ \A s \in SameDataset(DOMAIN dag, last.step) :
              s = last.result \/ uri_lt(s, last.result)

-----------------------------------------------------------------------------
(* utils.py: the checksum of a folder whose files are edited by hand *)

\* the folder of test_checksum_folder
ExampleDir == <<"example">>

\* the files the folder may hold: two of them have a basename checksum_folder
\* ignores, one of these in a subfolder
ExampleRels == {<<"file1.txt">>, <<"file2.txt">>, <<".DS_Store">>, <<"sub", ".DS_Store">>}

ExampleBytes == Contents \cup {Modified}

\* the dict is read in the order the keys were inserted
keys_as_inserted(keys) == keys

\* sorted(manifest.items()) of a dict whose keys were inserted in the order keys
sorted_keys(keys) == SortedRels(Range(keys))

\* checksum_manifest of the dict that holds manifest in the insertion order keys
checksum_manifest_of(manifest, keys) == Sha256(Fed(manifest, sorted_keys(keys)))

\* a folder with some of the files
InitFolder ==
    /\ \E rels \in SUBSET ExampleRels : \E bytes \in [rels -> Contents] :
          fs = [q \in {ExampleDir \o rel : rel \in rels} |-> bytes[relative_to(q, ExampleDir)]]
    /\ dag = <<>>
    /\ version = 1
    /\ pc = "idle"
    /\ args = NoArgs
    /\ selected = <<>>
    /\ plan = <<>>
    /\ to_execute = <<>>
    /\ executed = <<>>
    /\ meta = <<>>
    /\ store = <<>>
    /\ last = NoOp
    /\ fs0 = <<>>
    /\ downloaded = {}
    /\ created = <<>>
    /\ edits = 0

\* checksum_manifest(checksum_folder(dir)): rglob yields the files in some
\* order, which is the insertion order of the manifest
ChecksumFolder ==
    /\ ~checksum_folder_raises(fs, ExampleDir)
    /\ \E keys \in Perms(DOMAIN checksum_folder(fs, ExampleDir)) :
          last' = [op |-> "checksum", ok |-> TRUE, keys |-> keys,
                   manifest |-> checksum_folder(fs, ExampleDir),
                   checksum |-> checksum_manifest_of(checksum_folder(fs, ExampleDir), keys)]
    /\ UNCHANGED <<dag, version, runVars, worldVars, fs0, downloaded, created, edits>>

\* checksum_folder(dir) raises: no file to checksum
ChecksumFolderRaise ==
    /\ checksum_folder_raises(fs, ExampleDir)
    /\ last' = [op |-> "checksum", ok |-> FALSE]
    /\ UNCHANGED <<dag, version, runVars, worldVars, fs0, downloaded, created, edits>>

\* the user writes a file of the folder: a new one, or other bytes in one
\* that exists
FolderWrite ==
    \E rel \in ExampleRels, bytes \in ExampleBytes :
        /\ ExampleDir \o rel \in DOMAIN fs => fs[ExampleDir \o rel] # bytes
        /\ fs' = (ExampleDir \o rel :> bytes) @@ fs
        /\ last' = [op |-> "write", ok |-> TRUE, rel |-> rel]
        /\ Edit
        /\ UNCHANGED <<dag, version, runVars, meta, store, fs0, downloaded, created>>

\* the user removes a file of the folder
FolderRemove ==
    \E rel \in ExampleRels :
        /\ ExampleDir \o rel \in DOMAIN fs
        /\ fs' = Remove(fs, {ExampleDir \o rel})
        /\ last' = [op |-> "remove", ok |-> TRUE, rel |-> rel]
        /\ Edit
        /\ UNCHANGED <<dag, version, runVars, meta, store, fs0, downloaded, created>>

NextFolder ==
    \/ ChecksumFolder
    \/ ChecksumFolderRaise
    \/ FolderWrite
    \/ FolderRemove

SpecFolder == InitFolder /\ [][NextFolder]_vars

-----------------------------------------------------------------------------
(* The checksum of a folder: properties (under SpecFolder) *)

\* the basename of the file is in the ignore set
Ignored(rel) == rel[Len(rel)] \in IGNORE_FILES

\* C32: the roll-up checksum_manifest gives a manifest is the same whatever
\* the insertion order of its entries; a change of the bytes of one file
\* that is not ignored changes the manifest of the folder and its roll-up;
\* adding, removing or changing a file whose basename is in the ignore set
\* changes neither (nor whether checksum_folder finds a file at all).
C32_FolderChecksumDependsOnContentOnly ==
    [][/\ last'.op = "checksum" /\ last'.ok =>
             \A keys \in Perms(DOMAIN last'.manifest) :
                 checksum_manifest_of(last'.manifest, keys) = last'.checksum
       /\ (last'.op \in {"write", "remove"} /\ Ignored(last'.rel)) =>
             /\ checksum_folder(fs', ExampleDir) = checksum_folder(fs, ExampleDir)
             /\ checksum_manifest(checksum_folder(fs', ExampleDir))
                    = checksum_manifest(checksum_folder(fs, ExampleDir))
       /\ (last'.op = "write" /\ ~Ignored(last'.rel) /\ ExampleDir \o last'.rel \in DOMAIN fs) =>
             /\ checksum_folder(fs', ExampleDir) # checksum_folder(fs, ExampleDir)
             /\ checksum_manifest(checksum_folder(fs', ExampleDir))
                    # checksum_manifest(checksum_folder(fs, ExampleDir))]_vars

\* the manifest of a folder of two files and an ignored one has been summed,
\* the entries inserted in descending order, after an edit of the folder
C32_Witness ==
    /\ last.op = "checksum"
    /\ last.ok
    /\ edits > 0
    /\ ExampleDir \o <<".DS_Store">> \in DOMAIN fs
    /\ last.keys = << <<"file2.txt">>, <<"file1.txt">> >>

-----------------------------------------------------------------------------
(* Fetch and the up-to-date test: properties (under SpecRestore) *)

\* the record hashes to its own checksum and the store holds each content it
\* names under the key of its checksum
Consistent(st, r) ==
    LET sums == IF r.snapshot_type = "file" THEN {r.checksum}
                ELSE {r.manifest[rel] : rel \in DOMAIN r.manifest}
    IN /\ r.snapshot_type = "directory" => r.checksum = checksum_manifest(r.manifest)
       /\ \A checksum \in sums :
             /\ s3_path(checksum) \in DOMAIN st
             /\ Sha256(st[s3_path(checksum)]) = checksum

\* C33: when Snapshot.fetch has returned for a snapshot whose record and
\* object-store content are consistent, the up-to-date test of the snapshot
\* returns true, whatever the local files were before the fetch (a folder
\* that held a file the manifest does not name included).
C33_FetchEstablishesUpToDate ==
    [][(pc = "executing" /\ executed' # executed) =>
          LET r == load(meta, Head(to_execute).path)
          IN Consistent(store, r) =>
                /\ ~is_up_to_date_raises(fs', r)
                /\ is_up_to_date(fs', r)]_vars

-----------------------------------------------------------------------------
(* A build and the up-to-date test of a table: properties (under SpecTables) *)

\* the bytes of a file, or that there is none
BytesAt(f, m, path) ==
    IF path_exists(f, m, path) THEN <<checksum_path(f, m, path)>> ELSE <<>>

\* what the up-to-date test of table u built from deps is said to depend on:
\* the script, the metadata file of every dependency, whether the output
\* exists, and the metadata file of the table
Watched(f, m, u, deps) ==
    [script |-> BytesAt(f, m, script_candidates(u)[1]),
     deps |-> [i \in 1..Len(deps) |-> BytesAt(f, m, _metadata_path(deps[i]))],
     output |-> table_path(u) \in DOMAIN f,
     record |-> BytesAt(f, m, _metadata_path(u))]

\* table u is up to date with the record of a build from deps
Fresh(f, m, u, deps) ==
    /\ table_is_completed(f, m, u, deps)
    /\ Len(m[_metadata_path(u)].input_manifest) = Len(deps) + 1

\* C34: right after build_table(uri, deps) has returned, is_completed(uri,
\* deps) is true; it stays true over every step that changes neither the
\* script, nor a dependency's metadata file, nor whether the output exists,
\* nor the table's metadata file; and a step that changes the bytes of the
\* script or of a dependency's metadata file, the rest being left alone,
\* makes it false.
C34_BuildEstablishesFreshness ==
    [][/\ (last'.op = "build" /\ last'.ok) =>
             Fresh(fs', meta', last'.uri, dag[last'.uri])
       /\ \A u \in TableSteps :
             LET deps == dag[u]
                 before == Watched(fs, meta, u, deps)
                 after == Watched(fs', meta', u, deps)
             IN Fresh(fs, meta, u, deps) =>
                   /\ after = before => table_is_completed(fs', meta', u, deps)
                   /\ ( /\ after.output = before.output
                        /\ after.record = before.record
                        /\ after.script # <<>>
                        /\ \A i \in 1..Len(deps) : after.deps[i] # <<>>
                        /\ after # before ) => ~table_is_completed(fs', meta', u, deps)]_vars

\* a table built from the snapshot is up to date, and the record of the
\* snapshot has then been edited
C34_Witness ==
    \E u \in TableSteps :
        /\ dag[u] = <<SnapshotUri(SourceName)>>
        /\ table_path(u) \in DOMAIN fs
        /\ _metadata_path(u) \in DOMAIN meta
        /\ edits > 0
        /\ "name" \in DOMAIN meta[snapshot_metadata_path(SourceName)]
        /\ ~table_is_completed(fs, meta, u, dag[u])

-----------------------------------------------------------------------------
(* Builds, edits of a script, and the script put back as it was recorded *)

\* the checksum the record of table u holds for its script
recorded_script(m, u) == m[_metadata_path(u)].input_manifest[1][2]

\* the user puts a table's script back to the version the input manifest of
\* the last successful build recorded
RevertScript ==
    \E u \in TableSteps, bytes \in Scripts :
        /\ _metadata_path(u) \in DOMAIN meta
        /\ ~_get_executable_raises(fs, u)
        /\ fs[_get_executable(fs, u)] # bytes
        /\ Sha256(bytes) = recorded_script(meta, u)
        /\ fs' = [fs EXCEPT ![_get_executable(fs, u)] = bytes]
        /\ last' = [op |-> "revert", ok |-> TRUE, uri |-> u]
        /\ UNCHANGED <<dag, version, runVars, meta, store, fs0, downloaded, created, edits>>

NextRevert ==
    \/ BuildTableOk
    \/ BuildTableRaise
    \/ EditScript
    \/ RevertScript

SpecRevert == InitTables /\ [][NextRevert]_vars

-----------------------------------------------------------------------------
(* The output a record describes: properties (under SpecRevert) *)

\* C35: in every state reached by successful builds, failed builds and
\* edits of the script, a table that is_completed reports up to date has an
\* output file whose checksum is the one its metadata records (also after a
\* build that failed once the script had run, and after the script was put
\* back to the recorded version).
C35_UpToDateTableHasRecordedOutput ==
    \A u \in TableSteps :
        table_is_completed(fs, meta, u, dag[u]) =>
            Sha256(fs[table_path(u)]) = meta[_metadata_path(u)].checksum

-----------------------------------------------------------------------------
(* Registering snapshots while uploads may fail *)

\* Snapshot.create_from_file, add_to_s3 raises: the data file has been
\* copied, nothing is uploaded, no record is saved
SnapshotFileUploadRaise ==
    \E name \in SnapshotNames, local \in LocalFiles :
        /\ CanRegister(name)
        /\ ~is_dir(fs, snapshot_with_suffix(name, local.suffix))
        /\ fs' = create_from_file(fs, meta, store, local, name).fs
        /\ last' = [op |-> "snapshot", ok |-> FALSE, name |-> name, uploaded |-> {}]
        /\ UNCHANGED <<dag, version, runVars, meta, store, fs0, downloaded, created, edits>>

\* Snapshot.create_from_directory, add_to_s3 raises in add_directory_to_s3:
\* the tree has been copied, the files before the one that failed have been
\* uploaded (rglob gives the order), no record is saved
SnapshotDirectoryUploadRaise ==
    \E name \in SnapshotNames, tree \in LocalTrees :
        /\ CanRegister(name)
        /\ ~create_from_directory_raises(fs, tree, name)
        /\ LET res == create_from_directory(fs, meta, store, tree, name)
               manifest == checksum_folder(res.fs, res.data_path)
           IN \E uploaded \in SUBSET DOMAIN manifest :
                 /\ uploaded # DOMAIN manifest
                 /\ fs' = res.fs
                 /\ store' = UploadAll(store, res.fs, res.data_path, manifest,
                                       SortedRels(uploaded))
                 /\ last' = [op |-> "snapshot", ok |-> FALSE, name |-> name,
                             uploaded |-> uploaded]
        /\ UNCHANGED <<dag, version, runVars, meta, fs0, downloaded, created, edits>>

NextUpload ==
    \/ SnapshotFile
    \/ SnapshotFileUploadRaise
    \/ SnapshotDirectory(LocalTrees)
    \/ SnapshotDirectoryRaise(LocalTrees)
    \/ SnapshotDirectoryUploadRaise

SpecUpload == InitShelf /\ [][NextUpload]_vars

-----------------------------------------------------------------------------
(* Records and the object store: properties (under SpecUpload) *)

\* the checksums record r refers to: that of the file, or those of the manifest
Referred(r) ==
    IF r.snapshot_type = "file" THEN {r.checksum}
    ELSE {r.manifest[rel] : rel \in DOMAIN r.manifest}

\* C36: every snapshot record on disk refers only to checksums whose content
\* is in the object store under <cc>/<cc>/<checksum>, the key fetch reads,
\* in every state reached through Snapshot.create, the runs in which an
\* upload has failed included: the record is written after the uploads.
C36_RecordRefersToUploadedContent ==
    \A mp \in DOMAIN meta :
        \A checksum \in Referred(meta[mp]) :
            /\ s3_path(checksum) \in DOMAIN store
            /\ Sha256(store[s3_path(checksum)]) = checksum

\* a directory upload has failed after one of its two files, and a snapshot
\* has been registered
C36_Witness ==
    /\ last.op = "snapshot"
    /\ ~last.ok
    /\ Cardinality(last.uploaded) = 1
    /\ meta # <<>>
    /\ \E q \in DOMAIN fs : ~\E mp \in DOMAIN meta : IsPrefix(snapshot_path(meta[mp]), q)

-----------------------------------------------------------------------------
(* Planning over folders that were emptied by hand *)

\* a file with an ignored name, left in the folder of the directory snapshot
FinderFile == SNAPSHOT_DIR \o StepTable[3].path.dir \o <<StepTable[3].path.stem, ".DS_Store">>

\* the registered shelf; some of the data files were removed, the folder of
\* the directory snapshot may hold a file nobody registered and a file with
\* an ignored name, and the store holds some of the contents
InitPlan ==
    /\ dag = (StepTable[1] :> <<>>) @@ (StepTable[3] :> <<>>)
    /\ meta = Registered.meta
    /\ \E keys \in SUBSET DOMAIN Registered.store :
          store = [key \in keys |-> Registered.store[key]]
    /\ \E keep \in SUBSET DOMAIN Registered.fs, stray \in SUBSET {StrayFile, FinderFile} :
          fs = Disturbed(keep, {}, stray, {})
    /\ pc = "idle"
    /\ args = NoArgs
    /\ selected = <<>>
    /\ plan = <<>>
    /\ to_execute = <<>>
    /\ executed = <<>>
    /\ last = NoOp
    /\ fs0 = <<>>
    /\ downloaded = {}
    /\ created = <<>>
    /\ version = 1
    /\ edits = 0

NextPlan ==
    \/ PlanRun({FALSE})
    \/ PlanRunRaise
    \/ StartExecute
    \/ FetchStepOk
    \/ FetchStepRaise
    \/ Finish
    \/ Return

SpecPlan == InitPlan /\ [][NextPlan]_vars

-----------------------------------------------------------------------------
(* The up-to-date test on an emptied folder: properties (under SpecPlan) *)

\* the folder of the directory snapshot r exists and every file in it has an
\* ignored name
OnlyIgnored(f, r) ==
    /\ r.snapshot_type = "directory"
    /\ is_dir(f, snapshot_path(r))
    /\ \A q \in FilesUnder(f, snapshot_path(r)) : q[Len(q)] \in IGNORE_FILES

\* C37: when the folder of a directory snapshot exists but holds no file
\* that is not ignored, the up-to-date test raises the empty-folder error of
\* checksum_folder instead of returning false, and planning without force
\* ends with that error, nothing being planned; when the folder is missing
\* the test returns false and raises nothing.
C37_EmptyFolderAbortsPlanning ==
    [][(pc = "idle" /\ last'.op = "run") =>
          \A step \in DOMAIN dag :
              LET r == load(meta, step.path)
              IN /\ OnlyIgnored(fs, r) =>
                       /\ is_up_to_date_raises(fs, r)
                       /\ ~last'.force =>
                             /\ ~last'.ok
                             /\ pc' = "failed"
                             /\ plan' = <<>>
                             /\ last'.error = checksum_folder_error(snapshot_path(r))
                 /\ (r.snapshot_type = "directory" /\ ~is_dir(fs, snapshot_path(r))) =>
                       /\ ~is_up_to_date_raises(fs, r)
                       /\ ~is_up_to_date(fs, r)
                       /\ (last'.ok /\ ~last'.force) => step \in DOMAIN plan']_vars

\* planning has ended with the empty-folder error on a folder that holds
\* only a file with an ignored name
C37_Witness ==
    /\ pc = "failed"
    /\ last.op = "run"
    /\ ~last.ok
    /\ OnlyIgnored(fs, load(meta, StepTable[3].path))
    /\ last.error = "No files found in \"data/snapshots/ns/two/latest\" to checksum"

-----------------------------------------------------------------------------
(* utils.py: what checksum_manifest feeds to the hash, character by character *)

\* the length of a checksum: hexdigest() gives 64 characters, the model 2
DigestLen == 2

\* file names and checksums share the characters a and b
ManifestPaths == SeqsUpTo({"a", "b"}, MaxLen) \ {<<>>}

Digests == {t \in SeqsUpTo({"a", "b"}, DigestLen) : Len(t) = DigestLen}

\* the subsets of S of at most n elements
RECURSIVE SubsetsUpTo(_, _)
SubsetsUpTo(S, n) ==
    IF n = 0 THEN {{}}
    ELSE LET smaller == SubsetsUpTo(S, n - 1)
         IN smaller \cup {T \cup {x} : T \in smaller, x \in S}

\* the manifests of at most n files
TextManifests(n) == UNION {[P -> Digests] : P \in SubsetsUpTo(ManifestPaths, n) \ {{}}}

RECURSIVE sorted_texts(_)
\* sorted() of a set of texts
sorted_texts(S) ==
    IF S = {} THEN <<>>
    ELSE LET least == CHOOSE s \in S : \A t \in S \ {s} : text_lt(s, t)
         IN <<least>> \o sorted_texts(S \ {least})

RECURSIVE concatenation(_, _)
\* lines 45-47: sha256.update(file_name), then sha256.update(checksum), for
\* every entry in turn
concatenation(manifest, keys) ==
    IF keys = <<>> THEN <<>>
    ELSE Head(keys) \o manifest[Head(keys)] \o concatenation(manifest, Tail(keys))

\* the bytes checksum_manifest has fed to the hash before hexdigest()
fed(manifest) == concatenation(manifest, sorted_texts(DOMAIN manifest))

\* a manifest, and nothing else
InitManifest ==
    /\ args \in [manifest : TextManifests(MaxEntries)]
    /\ dag = <<>>
    /\ version = 1
    /\ pc = "idle"
    /\ selected = <<>>
    /\ plan = <<>>
    /\ to_execute = <<>>
    /\ executed = <<>>
    /\ fs = <<>>
    /\ meta = <<>>
    /\ store = <<>>
    /\ last = NoOp
    /\ fs0 = <<>>
    /\ downloaded = {}
    /\ created = <<>>
    /\ edits = 0

\* checksum_manifest(manifest)
ChecksumManifest ==
    /\ last = NoOp
    /\ last' = [op |-> "checksum_manifest", ok |-> TRUE, fed |-> fed(args.manifest)]
    /\ UNCHANGED <<dag, version, runVars, worldVars, fs0, downloaded, created, edits>>

NextManifest == ChecksumManifest

SpecManifest == InitManifest /\ [][NextManifest]_vars

-----------------------------------------------------------------------------
(* The bytes fed to the hash: properties (under SpecManifest) *)

\* C38: what checksum_manifest feeds to the hash (the entries in sorted path
\* order, each path followed by its checksum, nothing in between) is
\* injective on manifests: no other manifest yields the concatenation that
\* the manifest just summed has yielded.
C38_ConcatenationIsInjective ==
    last.op = "checksum_manifest" =>
        \A other \in TextManifests(MaxEntries) :
            other # args.manifest => fed(other) # last.fed

====
